---- MODULE Spec2Model ----
(***************************************************************************)
(* Resume ingestion pipeline of Optihire (apps/backend/app/services/       *)
(* resume_service.py): byte retrieval, format decoding, profile            *)
(* persistence and the processing-status state machine driven by           *)
(* parse_resume_background.                                                *)
(*                                                                         *)
(* Strings are sequences of one-character strings, so that prefix tests,   *)
(* substring tests, lower-casing and stripping are computed as the Python  *)
(* code computes them.                                                     *)
(***************************************************************************)
EXTENDS Naturals, Integers, Sequences, FiniteSets, TLC

(***************************************************************************)
(* Bounds of the model.                                                    *)
(***************************************************************************)
\* payload sizes range over MAX_FILE_SIZE_BYTES - SizeSlack .. + SizeSlack
SizeSlack == 1
\* extracted text lengths range over the threshold - TextSlack .. + TextSlack
TextSlack == 1
\* number of resume ids
NumResumes == 1
\* total number of invocations of parse_resume_background
MaxInvocations == 2
\* number of documents whose jobs run interleaved
NumDocuments == 2
\* number of lines of the texts handed to the section segmenter
MaxTextLines == 3
\* number of items of the short skills texts
MaxSkillItems == 2
\* how far the long skills texts go beyond the limit of the skills list
SkillSlack == 2
\* number of lines of the experience sections
MaxExperienceLines == 3
\* the lines of a sample education section
MaxEducationLines == 2
\* the lines of the sample texts a name is looked for in, and how far the
\* runs of blank or skipped lines go beyond the lines scanned
MaxNameLines == 2
NameSlack == 1
\* the clock of the requests advances MaxTicks times by SecondsPerTick
MaxTicks == 4
SecondsPerTick == 100

(***************************************************************************)
(* Program constants.                                                      *)
(***************************************************************************)
MIN_TEXT_LENGTH_THRESHOLD == 50
MAX_FILE_SIZE_BYTES == 5 * 1024 * 1024

\* Python's None, kept distinct from the empty string << >> and from every
\* string and list of the model
None == <<"<", "N", "o", "n", "e", ">">>

(***************************************************************************)
(* String helpers (str methods used by the service).                       *)
(***************************************************************************)
UPPERCASE == <<"A", "B", "C", "D", "E", "F", "G", "H", "I", "J", "K", "L", "M",
               "N", "O", "P", "Q", "R", "S", "T", "U", "V", "W", "X", "Y", "Z">>
LOWERCASE == <<"a", "b", "c", "d", "e", "f", "g", "h", "i", "j", "k", "l", "m",
               "n", "o", "p", "q", "r", "s", "t", "u", "v", "w", "x", "y", "z">>
WHITESPACE == {" ", "\n", "\t"}
DIGITS == <<"1", "2", "3", "4", "5", "6", "7", "8", "9">>

\* str.lower() on one character
LowerChar(c) ==
    IF \E i \in 1..26 : UPPERCASE[i] = c
    THEN LOWERCASE[CHOOSE i \in 1..26 : UPPERCASE[i] = c]
    ELSE c

\* str.lower()
Lower(s) == [i \in 1..Len(s) |-> LowerChar(s[i])]

\* `sub in s`
Contains(s, sub) ==
    \E i \in 1..(Len(s) + 1) :
        /\ i + Len(sub) - 1 <= Len(s)
        /\ SubSeq(s, i, i + Len(sub) - 1) = sub

\* s.startswith(p)
StartsWith(s, p) == Len(s) >= Len(p) /\ SubSeq(s, 1, Len(p)) = p

\* str.strip(): drop leading and trailing whitespace
Strip(s) ==
    LET keep == {i \in 1..Len(s) : s[i] \notin WHITESPACE}
    IN  IF keep = {} THEN << >>
        ELSE LET lo == CHOOSE i \in keep : \A j \in keep : i <= j
                 hi == CHOOSE i \in keep : \A j \in keep : j <= i
             IN  SubSeq(s, lo, hi)

\* s[:n]
Take(s, n) == SubSeq(s, 1, IF Len(s) < n THEN Len(s) ELSE n)

\* sep.join(parts)
RECURSIVE Join(_, _)
Join(parts, sep) ==
    IF parts = << >> THEN << >>
    ELSE IF Len(parts) = 1 THEN parts[1]
    ELSE parts[1] \o sep \o Join(Tail(parts), sep)

\* Python truthiness of an optional string or list
Truthy(v) == v # None /\ v # << >>

\* dict.get(key, default): a dictionary is a function on the keys it holds
Get(d, key, default) == IF key \in DOMAIN d THEN d[key] ELSE default

(***************************************************************************)
(* String literals of the service.                                         *)
(***************************************************************************)
PARSE_ERROR_PREFIX == <<"P", "a", "r", "s", "e", "E", "r", "r", "o", "r", ":", " ">>
DETAIL_SEP == <<" ", "-", " ">>
NOT_FOUND_NEEDLE == <<"n", "o", "t", " ", "f", "o", "u", "n", "d">>
HTTP_404_NEEDLE == <<"4", "0", "4">>
ENCRYPT_NEEDLE == <<"e", "n", "c", "r", "y", "p", "t">>
PASSWORD_NEEDLE == <<"p", "a", "s", "s", "w", "o", "r", "d">>
CORRUPT_NEEDLE == <<"c", "o", "r", "r", "u", "p", "t">>
INVALID_NEEDLE == <<"i", "n", "v", "a", "l", "i", "d">>
MALFORMED_NEEDLE == <<"m", "a", "l", "f", "o", "r", "m", "e", "d">>
ROW_DELIMITER == <<" ", "|", " ">>
NEWLINE == <<"\n">>

\* the names of the error taxonomy
ErrorNames ==
    {"UnsupportedFileType", "Oversize", "FileNotFound", "DownloadFailed",
     "ScannedPdfNoText", "EncryptedPdf", "CorruptedPdf", "CorruptedDocx",
     "ResumeNotFound", "UnexpectedError"}

\* the characters of a taxonomy name
NameChars(name) ==
    CASE name = "UnsupportedFileType" -> <<"U", "n", "s", "u", "p", "p", "o", "r", "t", "e", "d", "F", "i", "l", "e", "T", "y", "p", "e">>
      [] name = "Oversize" -> <<"O", "v", "e", "r", "s", "i", "z", "e">>
      [] name = "FileNotFound" -> <<"F", "i", "l", "e", "N", "o", "t", "F", "o", "u", "n", "d">>
      [] name = "DownloadFailed" -> <<"D", "o", "w", "n", "l", "o", "a", "d", "F", "a", "i", "l", "e", "d">>
      [] name = "ScannedPdfNoText" -> <<"S", "c", "a", "n", "n", "e", "d", "P", "d", "f", "N", "o", "T", "e", "x", "t">>
      [] name = "EncryptedPdf" -> <<"E", "n", "c", "r", "y", "p", "t", "e", "d", "P", "d", "f">>
      [] name = "CorruptedPdf" -> <<"C", "o", "r", "r", "u", "p", "t", "e", "d", "P", "d", "f">>
      [] name = "CorruptedDocx" -> <<"C", "o", "r", "r", "u", "p", "t", "e", "d", "D", "o", "c", "x">>
      [] name = "ResumeNotFound" -> <<"R", "e", "s", "u", "m", "e", "N", "o", "t", "F", "o", "u", "n", "d">>
      [] name = "UnexpectedError" -> <<"U", "n", "e", "x", "p", "e", "c", "t", "e", "d", "E", "r", "r", "o", "r">>

\* "ParseError: <name>"
ParseError(name) == PARSE_ERROR_PREFIX \o NameChars(name)

\* f"ParseError: <name> - {detail}"
ParseErrorWith(name, detail) == ParseError(name) \o DETAIL_SEP \o detail

\* the taxonomy name a message begins with after "ParseError: ", if any
Classification(msg) ==
    IF msg # None /\ \E n \in ErrorNames : StartsWith(msg, ParseError(n))
    THEN CHOOSE n \in ErrorNames : StartsWith(msg, ParseError(n))
    ELSE "Unclassified"

(***************************************************************************)
(* Results of calls: a returned value or a raised exception.               *)
(***************************************************************************)
Ok(v) == [ok |-> TRUE, value |-> v]
Raise(type, msg) == [ok |-> FALSE, type |-> type, msg |-> msg]

(***************************************************************************)
(* Sample inputs: file paths, library messages, texts, extracted entities. *)
(***************************************************************************)
PATH_PDF == <<"a", ".", "p", "d", "f">>
PATH_PDF_404 == <<"4", "0", "4", ".", "p", "d", "f">>
PATH_DOCX == <<"b", ".", "d", "o", "c", "x">>
PATH_PDF_UPPER == <<"a", ".", "P", "D", "F">>
PATH_TXT == <<"a", ".", "t", "x", "t">>
PATH_NO_DOT == <<"c", "v">>
PATH_PDF_TXT == <<"a", ".", "p", "d", "f", ".", "t", "x", "t">>

\* paths produced by upload_resume: f"resumes/{uuid4()}{.pdf|.docx}"
UploadPaths == {PATH_PDF, PATH_PDF_404, PATH_DOCX}
\* paths a caller may hand to the parsing functions
Paths == UploadPaths \cup {PATH_PDF_UPPER, PATH_TXT, PATH_NO_DOT, PATH_PDF_TXT}

MSG_OBJECT_NOT_FOUND == <<"O", "b", "j", "e", "c", "t", " ", "n", "o", "t", " ", "f", "o", "u", "n", "d">>
MSG_STATUS_404 == <<"s", "t", "a", "t", "u", "s", " ", "4", "0", "4">>
MSG_TIMED_OUT == <<"t", "i", "m", "e", "d", " ", "o", "u", "t">>
MSG_ENCRYPTED == <<"f", "i", "l", "e", " ", "i", "s", " ", "E", "n", "c", "r", "y", "p", "t", "e", "d">>
MSG_INVALID_XREF == <<"I", "n", "v", "a", "l", "i", "d", " ", "x", "r", "e", "f">>
MSG_BAD_STREAM == <<"b", "a", "d", " ", "s", "t", "r", "e", "a", "m">>
MSG_PREDICTOR == <<"U", "n", "s", "u", "p", "p", "o", "r", "t", "e", "d", " ", "p", "r", "e", "d", "i", "c", "t", "o", "r">>
MSG_NOT_A_ZIP == <<"n", "o", "t", " ", "a", " ", "z", "i", "p">>
MSG_DUPLICATE_KEY == <<"d", "u", "p", "l", "i", "c", "a", "t", "e", " ", "k", "e", "y">>
MSG_DB_DOWN == <<"d", "b", " ", "d", "o", "w", "n">>
MSG_NO_LEN == <<"o", "b", "j", "e", "c", "t", " ", "o", "f", " ", "t", "y", "p", "e", " ", "'", "N", "o", "n", "e", "T", "y", "p", "e", "'", " ", "h", "a", "s", " ", "n", "o", " ", "l", "e", "n", "(", ")">>

\* a text of n letters with pad whitespace characters on either side
Text(n, pad) ==
    [i \in 1..pad |-> " "] \o [i \in 1..n |-> "x"] \o [i \in 1..pad |-> "\n"]

TextLens ==
    {0} \cup ((MIN_TEXT_LENGTH_THRESHOLD - TextSlack)..(MIN_TEXT_LENGTH_THRESHOLD + TextSlack))

\* what the heuristic extractors find in a text (their output, not their rules)
ENTITIES_NONE ==
    [full_name |-> None, email |-> None, phone |-> None, location |-> None,
     linkedin_url |-> None, github_url |-> None, portfolio_url |-> None,
     professional_summary |-> None,
     skills |-> << >>, experiences |-> << >>, education |-> << >>,
     certifications |-> << >>, projects |-> << >>]
ENTITIES_FULL ==
    [full_name |-> <<"J", "o">>, email |-> <<"j", "@", "x">>, phone |-> None,
     location |-> None, linkedin_url |-> None, github_url |-> None,
     portfolio_url |-> None, professional_summary |-> <<"d", "e", "v">>,
     skills |-> << <<"P", "y">>, <<"G", "o">> >>,
     experiences |-> << [raw_text |-> <<"e", "1">>] >>,
     education |-> << [raw_text |-> <<"u", "1">>] >>,
     certifications |-> << [raw_text |-> <<"c", "1">>] >>,
     projects |-> << [raw_text |-> <<"p", "1">>] >>]
ENTITIES_SKILL ==
    [ENTITIES_NONE EXCEPT !.skills = << <<"P", "y">> >>]
EntitySamples == {ENTITIES_NONE, ENTITIES_FULL, ENTITIES_SKILL}

(***************************************************************************)
(* Files in storage.  A file is its size, what pdfminer's extract_text     *)
(* does with its bytes, what python-docx's Document does with them, and    *)
(* the entities the heuristics find in its text.                           *)
(***************************************************************************)
PdfText(t) == [kind |-> "text", text |-> t]
PdfNoText == [kind |-> "text", text |-> None]
LibRaise(type, msg) == [kind |-> "raise", type |-> type, msg |-> msg]
DocxDocument(paragraphs, tables) ==
    [kind |-> "document", paragraphs |-> paragraphs, tables |-> tables]

PdfFile(size, out, ents) ==
    [size |-> size, pdf |-> out,
     docx |-> LibRaise("BadZipFile", MSG_NOT_A_ZIP), entities |-> ents]
DocxFile(size, out, ents) ==
    [size |-> size, pdf |-> LibRaise("PDFSyntaxError", MSG_BAD_STREAM),
     docx |-> out, entities |-> ents]

Sizes == (MAX_FILE_SIZE_BYTES - SizeSlack)..(MAX_FILE_SIZE_BYTES + SizeSlack)
BaseSize == MAX_FILE_SIZE_BYTES - SizeSlack

PdfRaises ==
    {LibRaise("PDFEncryptionError", MSG_ENCRYPTED),
     LibRaise("PDFTextExtractionNotAllowed", MSG_BAD_STREAM),
     LibRaise("PDFSyntaxError", MSG_BAD_STREAM),
     LibRaise("ValueError", MSG_PREDICTOR),
     LibRaise("Exception", MSG_ENCRYPTED),
     LibRaise("Exception", MSG_INVALID_XREF),
     LibRaise("Exception", MSG_BAD_STREAM)}
DocxRaises ==
    {LibRaise("PackageNotFoundError", MSG_NOT_A_ZIP),
     LibRaise("ValueError", MSG_INVALID_XREF),
     LibRaise("BadZipFile", MSG_NOT_A_ZIP)}
DocxDocuments ==
    {DocxDocument(<< >>, << >>),
     DocxDocument(<<Text(2, 1), Text(0, 1), Text(3, 0)>>, << >>),
     DocxDocument(<<Text(2, 0)>>,
                  << << <<Text(1, 1), Text(0, 0), Text(2, 0)>>, <<Text(0, 1)>> >> >>)}

GOOD_TEXT == Text(MIN_TEXT_LENGTH_THRESHOLD, 0)

Files ==
    {PdfFile(s, PdfText(GOOD_TEXT), ENTITIES_FULL) : s \in Sizes}
    \cup {PdfFile(BaseSize, PdfText(Text(n, pad)), ENTITIES_FULL) :
             n \in TextLens, pad \in 0..1}
    \cup {PdfFile(BaseSize, PdfText(GOOD_TEXT), e) : e \in EntitySamples}
    \cup {PdfFile(BaseSize, PdfNoText, ENTITIES_NONE)}
    \cup {PdfFile(BaseSize, r, ENTITIES_NONE) : r \in PdfRaises}
    \cup {DocxFile(BaseSize, d, ENTITIES_SKILL) : d \in DocxDocuments}
    \cup {DocxFile(BaseSize, r, ENTITIES_NONE) : r \in DocxRaises}

\* what client.storage.from_(bucket).download(file_path) does
StorageResponses ==
    {[kind |-> "none"]}
    \cup {[kind |-> "raise", msg |-> m] :
             m \in {MSG_OBJECT_NOT_FOUND, MSG_STATUS_404, MSG_TIMED_OUT}}
    \cup {[kind |-> "bytes", file |-> f] : f \in Files}

\* the responses and paths the background job is run on
JobResponses ==
    {[kind |-> "none"], [kind |-> "raise", msg |-> MSG_TIMED_OUT]}
    \cup {[kind |-> "bytes", file |-> f] :
             f \in {PdfFile(MAX_FILE_SIZE_BYTES + SizeSlack, PdfText(GOOD_TEXT),
                            ENTITIES_FULL),
                    PdfFile(BaseSize, PdfText(GOOD_TEXT), ENTITIES_FULL),
                    PdfFile(BaseSize, PdfText(GOOD_TEXT), ENTITIES_SKILL),
                    PdfFile(BaseSize, LibRaise("ValueError", MSG_PREDICTOR),
                            ENTITIES_NONE),
                    DocxFile(BaseSize, DocxDocument(<< >>, << >>),
                             ENTITIES_SKILL)}}
JobPaths == {PATH_PDF, PATH_DOCX, PATH_TXT}

(***************************************************************************)
(* download_resume_file                                                    *)
(***************************************************************************)
\* the body of the try block
DownloadTry(file_path, response) ==
    IF response.kind = "raise" THEN Raise("StorageException", response.msg)
    ELSE IF response.kind = "none"
    THEN Raise("ValueError", ParseErrorWith("FileNotFound", file_path))
    ELSE IF response.file.size > MAX_FILE_SIZE_BYTES
    THEN Raise("ValueError", ParseError("Oversize"))
    ELSE Ok(response.file)

\* the try block followed by its `except Exception` handler
DownloadResumeFile(file_path, response) ==
    LET r == DownloadTry(file_path, response)
    IN  IF r.ok THEN r
        ELSE LET error_msg == r.msg
             IN  IF Contains(Lower(error_msg), NOT_FOUND_NEEDLE)
                    \/ Contains(error_msg, HTTP_404_NEEDLE)
                 THEN Raise("ValueError", ParseErrorWith("FileNotFound", file_path))
                 ELSE Raise("ValueError", ParseErrorWith("DownloadFailed", error_msg))

(***************************************************************************)
(* parse_pdf_resume, parse_docx_resume                                     *)
(***************************************************************************)
\* the scanned-PDF test with the threshold itself rejected
IsScanned_Inclusive(stripped_text) ==
    Len(stripped_text) <= MIN_TEXT_LENGTH_THRESHOLD

\* the scanned-PDF test on the stripped text
IsScanned(stripped_text) == Len(stripped_text) < MIN_TEXT_LENGTH_THRESHOLD

ParsePdfResume(file_content) ==
    LET lib == file_content.pdf
    IN  IF lib.kind = "raise"
        THEN CASE lib.type = "PDFEncryptionError" ->
                    Raise("ValueError", ParseError("EncryptedPdf"))
               [] lib.type = "PDFTextExtractionNotAllowed" ->
                    Raise("ValueError", ParseError("EncryptedPdf"))
               [] lib.type = "PDFSyntaxError" ->
                    Raise("ValueError", ParseError("CorruptedPdf"))
               [] lib.type = "ValueError" ->
                    Raise("ValueError", lib.msg)
               [] OTHER ->
                    LET error_msg == Lower(lib.msg)
                    IN  IF Contains(error_msg, ENCRYPT_NEEDLE)
                           \/ Contains(error_msg, PASSWORD_NEEDLE)
                        THEN Raise("ValueError", ParseError("EncryptedPdf"))
                        ELSE IF Contains(error_msg, CORRUPT_NEEDLE)
                                \/ Contains(error_msg, INVALID_NEEDLE)
                                \/ Contains(error_msg, MALFORMED_NEEDLE)
                        THEN Raise("ValueError", ParseError("CorruptedPdf"))
                        ELSE Raise("ValueError", ParseErrorWith("CorruptedPdf", lib.msg))
        ELSE LET stripped_text ==
                     IF Truthy(lib.text) THEN Strip(lib.text) ELSE << >>
             IN  IF IsScanned(stripped_text)
                 THEN Raise("ValueError", ParseError("ScannedPdfNoText"))
                 ELSE Ok(stripped_text)

\* [text for text in map(strip, texts) if text]
StrippedNonEmpty(texts) ==
    LET stripped == [i \in 1..Len(texts) |-> Strip(texts[i])]
    IN  SelectSeq(stripped, LAMBDA t : t # << >>)

\* the rows of all tables, in document order
RECURSIVE TableRows(_)
TableRows(tables) ==
    IF tables = << >> THEN << >> ELSE tables[1] \o TableRows(Tail(tables))

\* the paragraph lines followed by one " | "-joined line per non-empty table row
DocxLines(document) ==
    LET rows == TableRows(document.tables)
        row_texts == [i \in 1..Len(rows) |-> StrippedNonEmpty(rows[i])]
        kept == SelectSeq(row_texts, LAMBDA r : r # << >>)
    IN  StrippedNonEmpty(document.paragraphs)
        \o [i \in 1..Len(kept) |-> Join(kept[i], ROW_DELIMITER)]

ParseDocxResume(file_content) ==
    LET lib == file_content.docx
    IN  IF lib.kind = "raise"
        THEN IF lib.type = "PackageNotFoundError"
             THEN Raise("ValueError", ParseError("CorruptedDocx"))
             ELSE LET error_msg == Lower(lib.msg)
                  IN  IF Contains(error_msg, CORRUPT_NEEDLE)
                         \/ Contains(error_msg, INVALID_NEEDLE)
                      THEN Raise("ValueError", ParseError("CorruptedDocx"))
                      ELSE Raise("ValueError", ParseErrorWith("CorruptedDocx", lib.msg))
        ELSE Ok(Join(DocxLines(lib), NEWLINE))

(***************************************************************************)
(* extract_structured_data, _get_file_extension, parse_resume_content      *)
(***************************************************************************)
\* the result dictionary; the entity fields are the heuristics' output
ExtractStructuredData(raw_text, entities) ==
    LET found == IF Strip(raw_text) = << >> THEN ENTITIES_NONE ELSE entities
    IN  [full_name |-> found.full_name, email |-> found.email,
         phone |-> found.phone, location |-> found.location,
         linkedin_url |-> found.linkedin_url, github_url |-> found.github_url,
         portfolio_url |-> found.portfolio_url,
         professional_summary |-> found.professional_summary,
         skills |-> found.skills, experiences |-> found.experiences,
         education |-> found.education,
         certifications |-> found.certifications, projects |-> found.projects,
         raw_text |-> raw_text]

EXT_PDF == <<".", "p", "d", "f">>
EXT_DOCX == <<".", "d", "o", "c", "x">>
SUPPORTED_EXTENSIONS == {EXT_PDF, EXT_DOCX}

\* the extension taken after the first dot instead of the last
GetFileExtension_FirstDot(file_path) ==
    LET dots == {i \in 1..Len(file_path) : file_path[i] = "."}
    IN  IF dots = {} THEN << >>
        ELSE LET first == CHOOSE i \in dots : \A j \in dots : i <= j
                 later == {j \in dots : j > first}
                 stop == IF later = {} THEN Len(file_path) + 1
                         ELSE CHOOSE i \in later : \A j \in later : i <= j
             IN  <<".">> \o Lower(SubSeq(file_path, first + 1, stop - 1))

GetFileExtension(file_path) ==
    LET dots == {i \in 1..Len(file_path) : file_path[i] = "."}
    IN  IF dots = {} THEN << >>
        ELSE LET last == CHOOSE i \in dots : \A j \in dots : j <= i
             IN  <<".">> \o Lower(SubSeq(file_path, last + 1, Len(file_path)))

\* result of parse_resume_content, with the decoder it invoked ("none" if none)
ParseResumeContent(file_content, file_path) ==
    LET file_ext == GetFileExtension(file_path)
    IN  IF file_ext \notin SUPPORTED_EXTENSIONS
        THEN [result |-> Raise("ValueError", ParseError("UnsupportedFileType")),
              decoder |-> "none"]
        ELSE IF file_ext # EXT_PDF /\ file_ext # EXT_DOCX
        THEN [result |-> Raise("ValueError", ParseError("UnsupportedFileType")),
              decoder |-> "none"]
        ELSE LET decoder == IF file_ext = EXT_PDF THEN "pdf" ELSE "docx"
                 raw_text == IF decoder = "pdf"
                             THEN ParsePdfResume(file_content)
                             ELSE ParseDocxResume(file_content)
             IN  [result |-> IF raw_text.ok
                             THEN Ok(ExtractStructuredData(raw_text.value,
                                                           file_content.entities))
                             ELSE raw_text,
                  decoder |-> decoder]

(***************************************************************************)
(* SECTION_HEADERS and _extract_section_content.                           *)
(*                                                                         *)
(* A text is a sequence of tokens: "\n", " " (any other whitespace), ":",  *)
(* "w" (any other character) and, for each section, its name, standing for *)
(* one of the keyword phrases of the section's pattern.  Every pattern is  *)
(* ^\s*<keyword>(?:\s*:|\s*$) under re.MULTILINE.  Offsets count the       *)
(* tokens before a position, as Python's match.start() and match.end().    *)
(***************************************************************************)
\* the keys of SECTION_HEADERS, in the order of the dictionary
SECTION_NAMES ==
    <<"experience", "education", "skills", "certifications", "projects",
      "summary">>
SectionNames == {SECTION_NAMES[i] : i \in 1..Len(SECTION_NAMES)}

\* \s
IsSpace(tok) == tok \in WHITESPACE

\* ^ under re.MULTILINE: the start of the string or just after a newline
BolAt(text, i) == i = 0 \/ text[i] = "\n"

\* $ under re.MULTILINE: the end of the string or just before a newline
EolAt(text, j) == j = Len(text) \/ text[j + 1] = "\n"

\* the offset reached by a greedy \s* from offset i
SkipSpaces(text, i) ==
    LET stops == {q \in i..Len(text) :
                     q = Len(text) \/ ~IsSpace(text[q + 1])}
    IN  CHOOSE q \in stops : \A r \in stops : q <= r

\* (?:\s*:|\s*$) from offset q: the offset after the colon, else the last
\* offset of the whitespace run that is an end of line, else -1
HeaderTail(text, q) ==
    LET m == SkipSpaces(text, q)
        eols == {j \in q..m : EolAt(text, j)}
    IN  IF m < Len(text) /\ text[m + 1] = ":" THEN m + 1
        ELSE IF eols = {} THEN -1
        ELSE CHOOSE j \in eols : \A k \in eols : k <= j

\* the pattern of a section tried at offset i: the end of the match, or -1
HeaderMatchAt(text, section_name, i) ==
    IF ~BolAt(text, i) THEN -1
    ELSE LET q == SkipSpaces(text, i)
         IN  IF q < Len(text) /\ text[q + 1] = section_name
             THEN HeaderTail(text, q + 1)
             ELSE -1

NO_MATCH == [found |-> FALSE]

\* pattern.search(text): the leftmost match
HeaderSearch(text, section_name) ==
    LET starts == {i \in 0..Len(text) :
                      HeaderMatchAt(text, section_name, i) >= 0}
    IN  IF starts = {} THEN NO_MATCH
        ELSE LET i == CHOOSE i \in starts : \A k \in starts : i <= k
             IN  [found |-> TRUE, start |-> i,
                  end |-> HeaderMatchAt(text, section_name, i)]

\* text[i:]
From(text, i) == SubSeq(text, i + 1, Len(text))

\* the section taken to run to the end of the text
NextSectionStart_EndOfText(text, section_name, section_start) == Len(text)

\* the loop over the other sections: the least start of a match of another
\* section's pattern in text[section_start:], else len(text)
NextSectionStart(text, section_name, section_start) ==
    LET rest == From(text, section_start)
        ends == {section_start + HeaderSearch(rest, other).start :
                    other \in {o \in SectionNames \ {section_name} :
                                  HeaderSearch(rest, o).found}}
               \cup {Len(text)}
    IN  CHOOSE e \in ends : \A k \in ends : e <= k

\* _extract_section_content, with the span its content is stripped from
ExtractSectionContent(text, section_name) ==
    IF section_name \notin SectionNames
    THEN [found |-> FALSE, content |-> << >>]
    ELSE LET match == HeaderSearch(text, section_name)
         IN  IF ~match.found THEN [found |-> FALSE, content |-> << >>]
             ELSE LET section_start == match.end
                      next_section_start ==
                          NextSectionStart(text, section_name, section_start)
                  IN  [found |-> TRUE,
                       start |-> section_start,
                       end |-> next_section_start,
                       content |-> Strip(SubSeq(text, section_start + 1,
                                                next_section_start))]

\* sample lines: blank, prose, a header alone, a header with a colon and
\* text, a keyword after other text, two headers on one line
SampleSections == {"skills", "experience", "summary"}
SampleLines ==
    {<< >>, <<"w">>, <<" ", "skills", " ">>,
     <<"skills", ":", "experience", ":", "w">>}
    \cup {<<k>> : k \in SampleSections}
    \cup {<<k, ":", "w">> : k \in SampleSections}
    \cup {<<"w", " ", k>> : k \in SampleSections}

\* the texts of n sample lines, joined by newlines
RECURSIVE TextsOfLines(_)
TextsOfLines(n) ==
    IF n = 1 THEN SampleLines
    ELSE {t \o <<"\n">> \o l : t \in TextsOfLines(n - 1), l \in SampleLines}

SampleTexts == {<< >>} \cup UNION {TextsOfLines(n) : n \in 1..MaxTextLines}

(***************************************************************************)
(* _parse_skills_section.  Characters outside ASCII are written as names   *)
(* in braces, each standing for one character.                             *)
(***************************************************************************)
BULLET == "{bullet}"
MIDDLE_DOT == "{middle dot}"

\* the character class of the separators
SKILL_SEPARATORS ==
    {",", ";", "|", BULLET, MIDDLE_DOT, "{small square}", "{white bullet}",
     "{triangular bullet}", "{hyphen bullet}"}

\* the limits of the length of a skill and of the list
MAX_SKILL_LENGTH == 50
MAX_SKILLS == 50

IsLetter(c) == \E i \in 1..26 : c = UPPERCASE[i] \/ c = LOWERCASE[i]

\* the least index from `from` on whose character satisfies Test, else
\* len + 1
FirstIndex(s, from, Test(_)) ==
    LET hits == {i \in from..Len(s) : Test(s[i])}
    IN  IF hits = {} THEN Len(s) + 1
        ELSE CHOOSE i \in hits : \A j \in hits : i <= j

\* str.split(sep) for a one-character separator
RECURSIVE SplitChar(_, _)
SplitChar(s, sep) ==
    LET i == FirstIndex(s, 1, LAMBDA c : c = sep)
    IN  IF i > Len(s) THEN <<s>>
        ELSE <<SubSeq(s, 1, i - 1)>> \o SplitChar(SubSeq(s, i + 1, Len(s)), sep)

\* str.strip(chars)
StripChars(s, chars) ==
    LET keep == {i \in 1..Len(s) : s[i] \notin chars}
    IN  IF keep = {} THEN << >>
        ELSE LET lo == CHOOSE i \in keep : \A j \in keep : i <= j
                 hi == CHOOSE i \in keep : \A j \in keep : j <= i
             IN  SubSeq(s, lo, hi)

\* re.match(r"^([A-Za-z\s]+):\s*(.+)$", line) on a stripped line: group 2,
\* or the line itself when the pattern does not match
AfterCategoryLabel(line) ==
    LET c == FirstIndex(line, 1, LAMBDA ch : ~(IsLetter(ch) \/ IsSpace(ch)))
        content == FirstIndex(line, c + 1, LAMBDA ch : ~IsSpace(ch))
    IN  IF c > 1 /\ c <= Len(line) /\ line[c] = ":" /\ content <= Len(line)
        THEN SubSeq(line, content, Len(line))
        ELSE line

\* re.split(r"[,;|...]\s*", line)
RECURSIVE SplitSeparators(_)
SplitSeparators(line) ==
    LET i == FirstIndex(line, 1, LAMBDA c : c \in SKILL_SEPARATORS)
        rest == FirstIndex(line, i + 1, LAMBDA c : ~IsSpace(c))
    IN  IF i > Len(line) THEN <<line>>
        ELSE <<SubSeq(line, 1, i - 1)>>
                 \o SplitSeparators(SubSeq(line, rest, Len(line)))

\* part.strip().strip("-...").strip()
SkillOfPart(part) ==
    Strip(StripChars(Strip(part), {"-", BULLET, MIDDLE_DOT}))

IsSkill(skill) ==
    skill # << >> /\ Len(skill) < MAX_SKILL_LENGTH /\ Len(skill) > 1

\* the skills appended for one line
SkillsOfLine(raw_line) ==
    LET line == Strip(raw_line)
        parts == SplitSeparators(AfterCategoryLabel(line))
        skills == [i \in 1..Len(parts) |-> SkillOfPart(parts[i])]
    IN  IF line = << >> THEN << >> ELSE SelectSeq(skills, IsSkill)

RECURSIVE Concat(_)
Concat(seqs) ==
    IF seqs = << >> THEN << >> ELSE Head(seqs) \o Concat(Tail(seqs))

\* the elements of s whose index is in keep, in the order of s
AtIndices(s, keep) ==
    [k \in 1..Cardinality(keep) |->
        s[CHOOSE i \in keep : Cardinality({j \in keep : j <= i}) = k]]

\* duplicates told apart by their case
SeenKey_Exact(skill) == skill

\* the key under which a skill is remembered as seen
SeenKey(skill) == Lower(skill)

\* the first occurrence of every key, in order
UniqueSkills(skills) ==
    LET keys == [i \in 1..Len(skills) |-> SeenKey(skills[i])]
    IN  AtIndices(skills, {i \in 1..Len(skills) :
                              \A j \in 1..(i - 1) : keys[j] # keys[i]})

ParseSkillsSection(skills_text) ==
    IF skills_text = << >> THEN << >>
    ELSE LET lines == SplitChar(skills_text, "\n")
             skills == Concat([i \in 1..Len(lines) |-> SkillsOfLine(lines[i])])
         IN  Take(UniqueSkills(skills), MAX_SKILLS)

\* short texts: items joined by separators, with and without a label
LONG_SKILL == [i \in 1..MAX_SKILL_LENGTH |-> "x"]
SkillItems ==
    {<<"P", "y">>, <<"p", "y">>, <<"-", "P", "Y", "-">>, <<"C">>, LONG_SKILL}
ItemSeparators == {<<",", " ">>, <<"\n">>, <<" ", BULLET, " ">>}

RECURSIVE SkillTextsOf(_)
SkillTextsOf(n) ==
    IF n = 1 THEN SkillItems
    ELSE {t \o sep \o item :
             t \in SkillTextsOf(n - 1), sep \in ItemSeparators,
             item \in SkillItems}

ShortSkillTexts ==
    LET texts == UNION {SkillTextsOf(n) : n \in 1..MaxSkillItems}
    IN  texts \cup {<<"L", "a", "n", "g", ":", " ">> \o t : t \in texts}

\* long texts: k distinct two-character names on one line, and the same
\* with every name repeated in upper case
SkillName(k) == <<LOWERCASE[(k % 26) + 1], DIGITS[(k \div 26) + 1]>>
UpperSkillName(k) == <<UPPERCASE[(k % 26) + 1], DIGITS[(k \div 26) + 1]>>
LongSkillTexts ==
    UNION {{Join([i \in 1..k |-> SkillName(i)], <<",", " ">>),
            Join([i \in 1..k |-> SkillName(i) \o <<";">> \o UpperSkillName(i)],
                 <<",", " ">>)} :
           k \in (MAX_SKILLS - 1)..(MAX_SKILLS + SkillSlack)}

SampleSkillTexts == {<< >>} \cup ShortSkillTexts \cup LongSkillTexts

(***************************************************************************)
(* Regular expressions are matched as the backtracking matcher does: a     *)
(* pattern tried at an index yields the ends of its matches (the index     *)
(* after the last character matched) in the order the matcher tries them,  *)
(* and the first one is the match.                                         *)
(***************************************************************************)
EN_DASH == "{en dash}"
EM_DASH == "{em dash}"

LETTERS == {UPPERCASE[i] : i \in 1..26} \cup {LOWERCASE[i] : i \in 1..26}
DigitValue(c) == IF c = "0" THEN 0 ELSE CHOOSE i \in 1..9 : c = DIGITS[i]

\* int() of a string of digits
RECURSIVE IntOf(_)
IntOf(digits) ==
    IF digits = << >> THEN 0
    ELSE 10 * IntOf(SubSeq(digits, 1, Len(digits) - 1))
             + DigitValue(digits[Len(digits)])

\* hi, hi - 1, ..., lo
Descending(hi, lo) ==
    IF hi < lo THEN << >> ELSE [k \in 1..(hi - lo + 1) |-> hi - k + 1]

\* the length of the run from index p on of characters of a class
RECURSIVE RunLength(_, _, _)
RunLength(s, p, class) ==
    IF p <= Len(s) /\ s[p] \in class THEN 1 + RunLength(s, p + 1, class) ELSE 0

\* a greedy repetition of a character class, lo to hi times
Repeat(s, p, class, lo, hi) ==
    LET run == RunLength(s, p, class)
    IN  Descending(p + (IF run < hi THEN run ELSE hi), p + lo)

\* a literal
Literal(s, p, word) ==
    IF p + Len(word) - 1 <= Len(s)
       /\ \A k \in 1..Len(word) : s[p + k - 1] = word[k]
    THEN <<p + Len(word)>>
    ELSE << >>

\* the pattern F after each of the ends, in order
Then(ends, F(_)) == Concat([k \in 1..Len(ends) |-> F(ends[k])])

\* the month names, in lower case as the keys of month_names
MONTH_NAMES ==
    <<<<"j", "a", "n", "u", "a", "r", "y">>,
      <<"f", "e", "b", "r", "u", "a", "r", "y">>,
      <<"m", "a", "r", "c", "h">>,
      <<"a", "p", "r", "i", "l">>,
      <<"m", "a", "y">>,
      <<"j", "u", "n", "e">>,
      <<"j", "u", "l", "y">>,
      <<"a", "u", "g", "u", "s", "t">>,
      <<"s", "e", "p", "t", "e", "m", "b", "e", "r">>,
      <<"o", "c", "t", "o", "b", "e", "r">>,
      <<"n", "o", "v", "e", "m", "b", "e", "r">>,
      <<"d", "e", "c", "e", "m", "b", "e", "r">>>>
MONTH_ABBREVIATIONS == [m \in 1..12 |-> SubSeq(MONTH_NAMES[m], 1, 3)]

\* date_pattern is compiled with re.IGNORECASE: it is matched, in lower
\* case, against the line in lower case.
\* jan(?:uary)?|feb(?:ruary)?|...|dec(?:ember)?
MonthName(s, p) ==
    Concat([m \in 1..12 |->
              IF Len(MONTH_NAMES[m]) = 3
              THEN Literal(s, p, MONTH_NAMES[m])
              ELSE Literal(s, p, MONTH_NAMES[m])
                       \o Literal(s, p, MONTH_ABBREVIATIONS[m])])

\* \d and [-...to]
DIGIT_CHARS == {"0"} \cup {DIGITS[i] : i \in 1..9}
RANGE_CHARS == {"-", EN_DASH, EM_DASH, "t", "o"}

\* an unbounded repetition stops at the end of the string
Unbounded(s) == Len(s) + 1

\* \s*[-...to]+\s*
Separator(s, p, class) ==
    Then(Then(Repeat(s, p, WHITESPACE, 0, Unbounded(s)),
              LAMBDA q : Repeat(s, q, class, 1, Unbounded(s))),
         LAMBDA q : Repeat(s, q, WHITESPACE, 0, Unbounded(s)))

Year(s, p) == Repeat(s, p, DIGIT_CHARS, 4, 4)

PRESENT == <<"p", "r", "e", "s", "e", "n", "t">>
CURRENT == <<"c", "u", "r", "r", "e", "n", "t">>

\* present|current
OpenEnd(s, p) == Literal(s, p, PRESENT) \o Literal(s, p, CURRENT)

\* \d{1,2}/\d{4}
MonthSlashYear(s, p) ==
    Then(Then(Repeat(s, p, DIGIT_CHARS, 1, 2),
              LAMBDA q : Literal(s, q, <<"/">>)),
         LAMBDA q : Year(s, q))

\* <month>[\s,\.]*\d{4}
MonthAndYear(s, p) ==
    Then(Then(MonthName(s, p),
              LAMBDA q : Repeat(s, q, WHITESPACE \cup {",", "."}, 0,
                                Unbounded(s))),
         LAMBDA q : Year(s, q))

\* the three alternatives of date_pattern, tried in order at index p
DateRangeAt(s, p) ==
    Then(Then(MonthSlashYear(s, p), LAMBDA q : Separator(s, q, RANGE_CHARS)),
         LAMBDA q : MonthSlashYear(s, q) \o OpenEnd(s, q))
    \o Then(Then(MonthAndYear(s, p), LAMBDA q : Separator(s, q, RANGE_CHARS)),
            LAMBDA q : MonthAndYear(s, q) \o OpenEnd(s, q))
    \o Then(Then(Year(s, p), LAMBDA q : Separator(s, q, RANGE_CHARS)),
            LAMBDA q : Year(s, q) \o OpenEnd(s, q))

\* the match of date_pattern that starts at p and ends before `end`
DateMatch(s, p, end) ==
    [found |-> TRUE, start |-> p, end |-> end,
     group |-> SubSeq(s, p, end - 1)]

\* the leftmost match from index p on in the line in lower case
RECURSIVE DateSearchFrom(_, _, _)
DateSearchFrom(s, lower, p) ==
    IF p > Len(s) THEN NO_MATCH
    ELSE IF DateRangeAt(lower, p) # << >>
    THEN DateMatch(s, p, DateRangeAt(lower, p)[1])
    ELSE DateSearchFrom(s, lower, p + 1)

\* date_pattern.search(s)
DateSearch(s) == DateSearchFrom(s, Lower(s), 1)

HasDateRange(line) == DateSearch(line).found

(***************************************************************************)
(* _parse_date_string.                                                     *)
(***************************************************************************)
\* a date, as <<year, month, day>>
Date(year, month, day) == <<year, month, day>>

\* date(year, month, 1), which raises ValueError outside the calendar; the
\* error is caught and None returned
DateOrNone(year, month) ==
    IF year >= 1 /\ month \in 1..12 THEN Date(year, month, 1) ELSE None

\* month_names: the twelve names and the three-letter abbreviations
MonthNumber(month_str) ==
    LET hits == {m \in 1..12 :
                    month_str \in {MONTH_NAMES[m], MONTH_ABBREVIATIONS[m]}}
    IN  IF hits = {} THEN 0 ELSE CHOOSE m \in hits : TRUE

ParseDateString(raw) ==
    LET date_str == Strip(raw)
        mm_yyyy == MonthSlashYear(date_str, 1)
        slash == 1 + RunLength(date_str, 1, DIGIT_CHARS)
        letters == RunLength(date_str, 1, LETTERS)
        year_at == letters + 1 + RunLength(date_str, letters + 1, WHITESPACE)
    IN  IF raw = << >> THEN None
        ELSE IF Lower(date_str) \in {PRESENT, CURRENT} THEN None
        ELSE IF mm_yyyy # << >>
        THEN DateOrNone(IntOf(SubSeq(date_str, slash + 1, slash + 4)),
                        IntOf(SubSeq(date_str, 1, slash - 1)))
        ELSE IF letters >= 1 /\ Year(date_str, year_at) # << >>
                /\ MonthNumber(Lower(SubSeq(date_str, 1, letters))) # 0
        THEN DateOrNone(IntOf(SubSeq(date_str, year_at, year_at + 3)),
                        MonthNumber(Lower(SubSeq(date_str, 1, letters))))
        ELSE IF Len(date_str) = 4 /\ Year(date_str, 1) # << >>
        THEN DateOrNone(IntOf(date_str), 1)
        ELSE None

(***************************************************************************)
(* _parse_experience_section.  The entries are modelled with their raw     *)
(* text, dates and is_current; company_name and job_title are read from    *)
(* the same lines and decide neither the grouping nor the dates.           *)
(***************************************************************************)
MAX_EXPERIENCES == 20
MIN_ENTRY_LENGTH == 10
MIN_PARAGRAPH_LENGTH == 20

\* the stripped, non-empty lines
NonEmptyLines(text) ==
    LET lines == SplitChar(text, "\n")
    IN  SelectSeq([i \in 1..Len(lines) |-> Strip(lines[i])],
                  LAMBDA line : line # << >>)

\* a grouping that never closes an entry: all lines form one entry
GroupLines_OneEntry(lines, current_entry_lines, entries) ==
    IF lines = << >> THEN << >> ELSE <<lines>>

\* the grouping loop: a line with a date range closes the entry in progress
\* when that entry has lines, every other line joins it
RECURSIVE GroupLines(_, _, _)
GroupLines(lines, current_entry_lines, entries) ==
    IF lines = << >>
    THEN IF current_entry_lines # << >>
         THEN Append(entries, current_entry_lines)
         ELSE entries
    ELSE IF HasDateRange(Head(lines)) /\ current_entry_lines # << >>
    THEN GroupLines(Tail(lines), <<Head(lines)>>,
                    Append(entries, current_entry_lines))
    ELSE GroupLines(Tail(lines), Append(current_entry_lines, Head(lines)),
                    entries)

\* re.split(r"\n\s*\n", text)
RECURSIVE SplitBlankLines(_)
SplitBlankLines(text) ==
    LET closes(i) == {j \in (i + 1)..(i + 1 + RunLength(text, i + 1, WHITESPACE)) :
                         j <= Len(text) /\ text[j] = "\n"}
        opens == {i \in 1..Len(text) : text[i] = "\n" /\ closes(i) # {}}
        i == CHOOSE i \in opens : \A k \in opens : i <= k
        j == CHOOSE j \in closes(i) : \A k \in closes(i) : k <= j
    IN  IF opens = {} THEN <<text>>
        ELSE <<SubSeq(text, 1, i - 1)>>
                 \o SplitBlankLines(SubSeq(text, j + 1, Len(text)))

\* the fallback: one entry of one line for every paragraph of more than
\* MIN_PARAGRAPH_LENGTH characters
ParagraphEntries(text) ==
    LET paragraphs == SplitBlankLines(text)
        stripped == [i \in 1..Len(paragraphs) |-> Strip(paragraphs[i])]
        kept == SelectSeq(stripped, LAMBDA p : Len(p) > MIN_PARAGRAPH_LENGTH)
    IN  [i \in 1..Len(kept) |-> <<kept[i]>>]

\* the entries, each a list of lines
EntryLines(experience_text) ==
    LET entries == GroupLines(NonEmptyLines(experience_text), << >>, << >>)
    IN  IF Len(entries) <= 1 /\ Strip(experience_text) # << >>
        THEN ParagraphEntries(experience_text)
        ELSE entries

\* re.split(r"\s*[-...to]+\s*", date_str, maxsplit=1)
SplitRange(date_str) ==
    LET starts == {p \in 1..Len(date_str) :
                      Separator(date_str, p, RANGE_CHARS) # << >>}
        p == CHOOSE p \in starts : \A q \in starts : p <= q
    IN  IF starts = {} THEN <<date_str>>
        ELSE <<SubSeq(date_str, 1, p - 1),
               SubSeq(date_str, Separator(date_str, p, RANGE_CHARS)[1],
                      Len(date_str))>>

IsCurrentRange(date_str) ==
    Contains(Lower(date_str), PRESENT) \/ Contains(Lower(date_str), CURRENT)

\* an end date given to an open range as well
TODAY == Date(2026, 1, 1)
EndDateOf_OpenAsToday(entry, dates, is_current) ==
    IF is_current THEN TODAY
    ELSE IF Len(dates) >= 2 THEN ParseDateString(dates[2])
    ELSE entry.end_date

\* the end date is assigned only for a range that is not open
EndDateOf(entry, dates, is_current) ==
    IF Len(dates) >= 2 /\ ~is_current THEN ParseDateString(dates[2])
    ELSE entry.end_date

\* the date block of the loop over the lines of an entry
WithDates(entry, line) ==
    LET date_match == DateSearch(Strip(line))
        date_str == date_match.group
        dates == SplitRange(date_str)
    IN  IF date_match.found /\ entry.start_date = None
        THEN [entry EXCEPT !.is_current = IsCurrentRange(date_str),
                           !.start_date = ParseDateString(dates[1]),
                           !.end_date =
                               EndDateOf(entry, dates, IsCurrentRange(date_str))]
        ELSE entry

RECURSIVE WithDatesOfLines(_, _)
WithDatesOfLines(entry, entry_lines) ==
    IF entry_lines = << >> THEN entry
    ELSE WithDatesOfLines(WithDates(entry, Head(entry_lines)),
                          Tail(entry_lines))

ExperienceOf(entry_lines) ==
    WithDatesOfLines([raw_text |-> Join(entry_lines, <<"\n">>),
                      start_date |-> None, end_date |-> None,
                      is_current |-> FALSE],
                     entry_lines)

ParseExperienceSection(experience_text) ==
    IF experience_text = << >> THEN << >>
    ELSE LET entries == EntryLines(experience_text)
             long == SelectSeq(entries,
                               LAMBDA e : Len(Join(e, <<"\n">>)) >= MIN_ENTRY_LENGTH)
         IN  Take([i \in 1..Len(long) |-> ExperienceOf(long[i])],
                  MAX_EXPERIENCES)

\* sample lines
LINE_JAN_PRESENT ==
    <<"J", "a", "n", " ", "2", "0", "2", "0", " ", "-", " ", "P", "r", "e",
      "s", "e", "n", "t">>
LINE_JUN_DEC ==
    <<"J", "u", "n", " ", "2", "0", "1", "8", " ", "-", " ", "D", "e", "c",
      " ", "2", "0", "1", "9">>
LINE_COMPANY ==
    <<"A", "c", "m", "e">>
LINE_OCT_CURRENT ==
    <<"D", "e", "v", " ", "O", "c", "t", " ", "2", "0", "1", "9", " ", "t",
      "o", " ", "c", "u", "r", "r", "e", "n", "t">>
LINE_SLASH ==
    <<"0", "3", "/", "2", "0", "1", "5", " ", EN_DASH, " ", "1", "3", "/",
      "2", "0", "1", "6">>
LINE_YEARS ==
    <<"2", "0", "1", "5", "-", "2", "0", "1", "7">>
LINE_PROSE ==
    <<"B", "u", "i", "l", "t", " ", "A", "P", "I", "s", " ", "f", "o", "r",
      " ", "3", " ", "t", "e", "a", "m", "s">>

ExperienceLines ==
    {<< >>, LINE_JAN_PRESENT, LINE_JUN_DEC, LINE_COMPANY, LINE_OCT_CURRENT,
     LINE_SLASH, LINE_YEARS, LINE_PROSE}

\* the sections of n sample lines
RECURSIVE SectionsOfLines(_)
SectionsOfLines(n) ==
    IF n = 1 THEN ExperienceLines
    ELSE {t \o <<"\n">> \o l :
             t \in SectionsOfLines(n - 1), l \in ExperienceLines}

\* a section of more date lines than the list may hold entries
LongExperienceText ==
    Join([i \in 1..(MAX_EXPERIENCES + 1) |-> LINE_JUN_DEC], <<"\n">>)

\* a range of months, "<Month> 2019 - <Month> 2020" or "<Month> 2019 -
\* Present", under a line of its own: every spelling of every month stands
\* on the left before January, and on both sides at once
Capitalised(word) ==
    <<UPPERCASE[CHOOSE i \in 1..26 : LOWERCASE[i] = word[1]]>> \o Tail(word)
MonthSpellings ==
    {MONTH_NAMES[m] : m \in 1..12} \cup {MONTH_ABBREVIATIONS[m] : m \in 1..12}
RangeStart(month) ==
    Capitalised(month) \o <<" ", "2", "0", "1", "9", " ", "-", " ">>
ClosedEnd(month) == Capitalised(month) \o <<" ", "2", "0", "2", "0">>
RangeEnds(month) ==
    {ClosedEnd(month), ClosedEnd(MONTH_NAMES[1]),
     Capitalised(PRESENT), Capitalised(CURRENT)}
MonthRangeTexts ==
    UNION {{LINE_COMPANY \o <<"\n">> \o RangeStart(month) \o end :
               end \in RangeEnds(month)} : month \in MonthSpellings}

SampleExperienceTexts ==
    UNION {SectionsOfLines(n) : n \in 1..MaxExperienceLines}
        \cup {LongExperienceText} \cup MonthRangeTexts

(***************************************************************************)
(* _parse_education_section.  The entries are modelled with their raw text,*)
(* dates and is_current; institution_name, degree_type and field_of_study  *)
(* are read from the same lines and decide neither the grouping nor the    *)
(* dates.                                                                  *)
(***************************************************************************)
MAX_EDUCATION == 10
MIN_EDUCATION_LENGTH == 5
MIN_EDUCATION_PARAGRAPH == 10

\* the alternatives of degree_pattern that are plain words, in lower case
DEGREE_WORDS ==
    {<<"b", "a", "c", "h", "e", "l", "o", "r">>,
     <<"m", "a", "s", "t", "e", "r">>,
     <<"p", "h", "d">>,
     <<"p", "h", ".", "d">>,
     <<"d", "o", "c", "t", "o", "r", "a", "t", "e">>,
     <<"a", "s", "s", "o", "c", "i", "a", "t", "e">>,
     <<"m", "b", "a">>,
     <<"m", ".", "b", ".", "a">>,
     <<"b", "s", "c">>,
     <<"b", ".", "s", "c">>,
     <<"m", "s", "c">>,
     <<"m", ".", "s", "c">>,
     <<"b", "b", "a">>,
     <<"b", ".", "b", ".", "a">>,
     <<"d", "o", "c", "t", "o", "r", " ", "o", "f">>,
     <<"d", "i", "p", "l", "o", "m", "a">>,
     <<"c", "e", "r", "t", "i", "f", "i", "c", "a", "t", "e">>,
     <<"g", "e", "d">>,
     <<"h", "i", "g", "h", " ", "s", "c", "h", "o", "o", "l">>}

\* B\.S\.?(?:\s|$) and the like: an optional dot, then whitespace or the end
DEGREE_INITIALS ==
    {<<"b", ".", "s">>,
     <<"b", ".", "a">>,
     <<"m", ".", "s">>,
     <<"m", ".", "a">>}

\* (?<![,\s][A-Z]) under re.IGNORECASE: the two characters before index p
\* are not a comma or whitespace followed by a letter
NotAfterInitial(lower, p) ==
    ~(/\ p >= 3
      /\ lower[p - 2] \in WHITESPACE \cup {","}
      /\ lower[p - 1] \in LETTERS)

\* the pattern tried at index p of the line in lower case; the optional
\* parts after a word decide the text matched, not whether it matches
DegreeAt(lower, p) ==
    /\ NotAfterInitial(lower, p)
    /\ \/ \E word \in DEGREE_WORDS : Literal(lower, p, word) # << >>
       \/ \E word \in DEGREE_INITIALS :
             /\ Literal(lower, p, word) # << >>
             /\ LET q == p + Len(word)
                    r == IF q <= Len(lower) /\ lower[q] = "." THEN q + 1 ELSE q
                    tail(k) == k > Len(lower) \/ lower[k] \in WHITESPACE
                IN  tail(r) \/ tail(q)

\* degree_pattern.search(line)
HasDegree(line) == \E p \in 1..Len(line) : DegreeAt(Lower(line), p)

\* the grouping loop: a line with a degree closes the entry in progress
\* when that entry has lines, every other line joins it
RECURSIVE GroupDegreeLines(_, _, _)
GroupDegreeLines(lines, current_entry_lines, entries) ==
    IF lines = << >>
    THEN IF current_entry_lines # << >>
         THEN Append(entries, current_entry_lines)
         ELSE entries
    ELSE IF HasDegree(Head(lines)) /\ current_entry_lines # << >>
    THEN GroupDegreeLines(Tail(lines), <<Head(lines)>>,
                          Append(entries, current_entry_lines))
    ELSE GroupDegreeLines(Tail(lines),
                          Append(current_entry_lines, Head(lines)), entries)

\* the entries, each a list of lines: the groups, or the paragraphs of more
\* than MIN_EDUCATION_PARAGRAPH characters of a section that has several
EducationEntryLines(education_text) ==
    LET entries == GroupDegreeLines(NonEmptyLines(education_text), << >>, << >>)
        paragraphs == SplitBlankLines(education_text)
        stripped == [i \in 1..Len(paragraphs) |-> Strip(paragraphs[i])]
        kept == SelectSeq(stripped,
                          LAMBDA p : Len(p) > MIN_EDUCATION_PARAGRAPH)
    IN  IF Len(entries) <= 1 /\ Strip(education_text) # << >>
           /\ Len(paragraphs) > 1
        THEN [i \in 1..Len(kept) |-> <<kept[i]>>]
        ELSE entries

\* \w
WORD_CHARS == LETTERS \cup DIGIT_CHARS \cup {"_"}

\* set(re.findall(r"\b(20\d{2}|19\d{2})\b", combined_text)), as integers
AllYears(combined_text) ==
    {IntOf(SubSeq(combined_text, p, p + 3)) :
        p \in {q \in 1..(Len(combined_text) - 3) :
                  /\ SubSeq(combined_text, q, q + 1)
                         \in {<<"2", "0">>, <<"1", "9">>}
                  /\ combined_text[q + 2] \in DIGIT_CHARS
                  /\ combined_text[q + 3] \in DIGIT_CHARS
                  /\ q = 1 \/ combined_text[q - 1] \notin WORD_CHARS
                  /\ q + 3 = Len(combined_text)
                         \/ combined_text[q + 4] \notin WORD_CHARS}}

\* re.search(r"present|current|expected", combined_text, re.IGNORECASE)
EXPECTED == <<"e", "x", "p", "e", "c", "t", "e", "d">>
IsOngoing(combined_text) ==
    \E word \in {PRESENT, CURRENT, EXPECTED} :
        Contains(Lower(combined_text), word)

Least(years) == CHOOSE y \in years : \A z \in years : y <= z
Greatest(years) == CHOOSE y \in years : \A z \in years : z <= y

EducationStartDate(years) ==
    IF Cardinality(years) >= 2 THEN Date(Least(years), 1, 1) ELSE None

\* the latest year ends an entry that is ongoing as well
EducationEndDate_AlsoOngoing(years, is_current) ==
    IF years = {} THEN None ELSE Date(Greatest(years), 1, 1)

\* of several years the latest is the end unless the entry is ongoing; a
\* single year is the end
EducationEndDate(years, is_current) ==
    IF Cardinality(years) >= 2
    THEN IF ~is_current THEN Date(Greatest(years), 1, 1) ELSE None
    ELSE IF Cardinality(years) = 1 THEN Date(Greatest(years), 1, 1)
    ELSE None

EducationOf(entry_lines) ==
    LET combined_text == Join(entry_lines, <<" ">>)
        years == AllYears(combined_text)
    IN  [raw_text |-> Join(entry_lines, <<"\n">>),
         is_current |-> IsOngoing(combined_text),
         start_date |-> EducationStartDate(years),
         end_date |-> EducationEndDate(years, IsOngoing(combined_text))]

ParseEducationSection(education_text) ==
    IF education_text = << >> THEN << >>
    ELSE LET entries == EducationEntryLines(education_text)
             long == SelectSeq(entries,
                               LAMBDA e : Len(Join(e, <<"\n">>))
                                              >= MIN_EDUCATION_LENGTH)
         IN  Take([i \in 1..Len(long) |-> EducationOf(long[i])],
                  MAX_EDUCATION)

\* sample lines
LINE_MBA_RANGE ==
    <<"M", "B", "A", " ", "2", "0", "1", "5", " ", "-", " ", "2", "0", "1",
      "9">>
LINE_PHD_YEAR ==
    <<"P", "h", "D", " ", "2", "0", "2", "0">>
LINE_MSC_EXPECTED ==
    <<"M", "S", "c", " ", "2", "0", "1", "8", "-", "2", "0", "2", "1", ",",
      " ", "e", "x", "p", "e", "c", "t", "e", "d", " ", "2", "0", "2", "2">>
LINE_DIPLOMA_1899 ==
    <<"D", "i", "p", "l", "o", "m", "a", " ", "1", "8", "9", "9">>
LINE_COLLEGE ==
    <<"S", "t", "a", "t", "e", " ", "C", "o", "l", "l", "e", "g", "e">>
LINE_PHD_PRESENT ==
    <<"P", "h", "D", " ", "2", "0", "1", "9", " ", "-", " ", "p", "r", "e",
      "s", "e", "n", "t">>
LINE_GED_TWICE ==
    <<"G", "E", "D", " ", "2", "0", "1", "6", " ", "a", "n", "d", " ", "2",
      "0", "1", "6">>
LINE_NO_DEGREE ==
    <<"O", "r", "g", ",", " ", "X", "M", "B", "A", " ", "2", "0", "1", "3">>

EducationLines ==
    {<< >>, LINE_MBA_RANGE, LINE_PHD_YEAR, LINE_MSC_EXPECTED,
     LINE_DIPLOMA_1899, LINE_COLLEGE, LINE_PHD_PRESENT, LINE_GED_TWICE,
     LINE_NO_DEGREE}

\* the sections of n sample lines
RECURSIVE EducationSectionsOfLines(_)
EducationSectionsOfLines(n) ==
    IF n = 1 THEN EducationLines
    ELSE {t \o <<"\n">> \o l :
             t \in EducationSectionsOfLines(n - 1), l \in EducationLines}

\* a section of more degree lines than the list may hold entries
LongEducationText ==
    Join([i \in 1..(MAX_EDUCATION + 1) |-> LINE_PHD_YEAR], <<"\n">>)

SampleEducationTexts ==
    UNION {EducationSectionsOfLines(n) : n \in 1..MaxEducationLines}
        \cup {LongEducationText}

(***************************************************************************)
(* _extract_name.                                                          *)
(***************************************************************************)
LINES_SCANNED == 10
MAX_NAME_LENGTH == 50
MAX_NAME_WORDS == 4

NAME_SKIP_KEYWORDS ==
    {<<"r", "e", "s", "u", "m", "e">>,
     <<"c", "u", "r", "r", "i", "c", "u", "l", "u", "m">>,
     <<"c", "v">>,
     <<"o", "b", "j", "e", "c", "t", "i", "v", "e">>,
     <<"s", "u", "m", "m", "a", "r", "y">>,
     <<"e", "x", "p", "e", "r", "i", "e", "n", "c", "e">>}

\* [\d\s\-\(\)\+] and [A-Za-z\.\-\']
PHONE_CHARS == DIGIT_CHARS \cup WHITESPACE \cup {"-", "(", ")", "+"}
NAME_CHARS == LETTERS \cup {".", "-", "'"}

\* str.split(): the runs of characters that are not whitespace
RECURSIVE SplitWords(_)
SplitWords(s) ==
    LET from == 1 + RunLength(s, 1, WHITESPACE)
        to == FirstIndex(s, from, LAMBDA c : c \in WHITESPACE)
    IN  IF from > Len(s) THEN << >>
        ELSE <<SubSeq(s, from, to - 1)>> \o SplitWords(SubSeq(s, to, Len(s)))

\* the four skip rules of the loop, on a stripped line that is not empty
IsSkipped(line) ==
    \/ Contains(line, <<"@">>)
    \/ Contains(Lower(line), <<"h", "t", "t", "p">>)
    \/ RunLength(line, 1, PHONE_CHARS) = Len(line)
    \/ Len(line) > MAX_NAME_LENGTH
    \/ \E keyword \in NAME_SKIP_KEYWORDS : Contains(Lower(line), keyword)

\* one to four words, each of letters, dots, hyphens and apostrophes
HasNameWords(line) ==
    LET words == SplitWords(line)
    IN  /\ 1 <= Len(words)
        /\ Len(words) <= MAX_NAME_WORDS
        /\ \A k \in 1..Len(words) :
              RunLength(words[k], 1, NAME_CHARS) = Len(words[k])

LooksLikeName(line) == line # << >> /\ ~IsSkipped(line) /\ HasNameWords(line)

\* the loop over lines[:n] of the stripped text
FirstNameIn(lines) ==
    LET stripped == [i \in 1..Len(lines) |-> Strip(lines[i])]
        hits == {i \in 1..Len(lines) : LooksLikeName(stripped[i])}
    IN  IF hits = {} THEN None
        ELSE stripped[CHOOSE i \in hits : \A j \in hits : i <= j]

ExtractName(text) ==
    FirstNameIn(Take(SplitChar(Strip(text), "\n"), LINES_SCANNED))

\* sample lines
NAME_JOHN ==
    <<"J", "o", "h", "n", " ", "S", "m", "i", "t", "h">>
NAME_MARY ==
    <<"M", "a", "r", "y", "-", "A", "n", "n", " ", "O", "'", "N", "e", "i",
      "l", " ", "J", "r", ".">>
LINE_RESUME ==
    <<"R", "e", "s", "u", "m", "e">>
LINE_EMAIL ==
    <<"a", "@", "b", ".", "c", "o">>
LINE_PHONE ==
    <<"+", "1", " ", "(", "5", "5", "5", ")", " ", "0", "1", "0", "-", "9",
      "9", "9", "9">>
LINE_URL ==
    <<"H", "T", "T", "P", ":", "/", "/", "x", ".", "i", "o">>
LINE_LEET ==
    <<"J", "0", "h", "n", " ", "S", "m", "i", "t", "h">>
LINE_FIVE_WORDS ==
    <<"A", " ", "B", " ", "C", " ", "D", " ", "E">>

LettersOnly(n) == [i \in 1..n |-> "a"]
NameLines ==
    {<< >>, NAME_JOHN, NAME_MARY, LINE_RESUME, LINE_EMAIL, LINE_PHONE,
     LINE_URL, LINE_LEET, LINE_FIVE_WORDS,
     LettersOnly(MAX_NAME_LENGTH), LettersOnly(MAX_NAME_LENGTH + 1)}

\* the texts of n sample lines
RECURSIVE NameTextsOfLines(_)
NameTextsOfLines(n) ==
    IF n = 1 THEN NameLines
    ELSE {t \o <<"\n">> \o l : t \in NameTextsOfLines(n - 1), l \in NameLines}

\* a line that is skipped, `gap` blank lines and a name, after `lead` blank
\* lines
NewLines(n) == [i \in 1..n |-> "\n"]
GapTexts ==
    {NewLines(lead) \o first \o NewLines(gap + 1) \o NAME_JOHN :
        lead \in {0, 2}, first \in {LINE_RESUME, LINE_EMAIL},
        gap \in 0..(LINES_SCANNED + NameSlack)}

\* n lines that are skipped and then a name
FilledTexts ==
    {Join([i \in 1..n |-> LINE_RESUME] \o <<NAME_MARY>>, <<"\n">>) :
        n \in 1..(LINES_SCANNED + NameSlack)}

SampleNameTexts ==
    UNION {NameTextsOfLines(n) : n \in 1..MaxNameLines}
        \cup GapTexts \cup FilledTexts

(***************************************************************************)
(* JWTValidator.validate_token and JWTMiddleware.dispatch.                 *)
(***************************************************************************)
\* the ttl of token_cache, in seconds
TOKEN_CACHE_TTL == 300

PUBLIC_PATHS == {"/", "/health", "/docs", "/redoc", "/openapi.json"}

\* map_role_to_scopes
MapRoleToScopes(role) ==
    IF role = "authenticated"
    THEN <<"users:read", "users:create", "users:update", "users:delete">>
    ELSE IF role = "service_role"
    THEN <<"users:read", "users:create", "users:update", "users:delete",
           "admin:read", "admin:write">>
    ELSE <<"users:read">>

\* a claim that is a list, and one that is a string
ListClaim(items) == [type |-> "list", items |-> items]
StrClaim(value) == [type |-> "str", value |-> value]

\* sample tokens: what the signature check finds and the claims signed
LastSecond == MaxTicks * SecondsPerTick
TOKENS ==
    [fresh |-> [signature |-> "valid",
                payload |-> [sub |-> "u1", role |-> "authenticated",
                             exp |-> LastSecond + SecondsPerTick]],
     short |-> [signature |-> "valid",
                payload |-> [sub |-> "u1", role |-> "authenticated",
                             exp |-> SecondsPerTick]],
     stale |-> [signature |-> "valid",
                payload |-> [sub |-> "u1", role |-> "authenticated",
                             exp |-> 0 - SecondsPerTick]],
     forged |-> [signature |-> "invalid",
                 payload |-> [sub |-> "u1", role |-> "service_role",
                              exp |-> LastSecond + SecondsPerTick]],
     nosub |-> [signature |-> "valid",
                payload |-> [role |-> "authenticated",
                             exp |-> LastSecond + SecondsPerTick]],
     scoped |-> [signature |-> "valid",
                 payload |-> [sub |-> "u2", role |-> "authenticated",
                              scopes |-> StrClaim("users:read"),
                              exp |-> LastSecond + SecondsPerTick]]]
TokenIds == DOMAIN TOKENS

NOT_CACHED == [cached |-> FALSE]
CacheEntry(payload, expires) ==
    [cached |-> TRUE, payload |-> payload, expires |-> expires]

\* `token in token_cache`.  At the second of expiry itself the answer
\* differs between releases of cachetools: `lenient` is the release that
\* still holds the item.
InCache(cache, token, now, lenient) ==
    /\ cache[token].cached
    /\ now < cache[token].expires \/ (lenient /\ now = cache[token].expires)

\* jwt.decode with verify_signature and verify_exp.  At the second of
\* expiry itself the answer differs between releases of PyJWT: `lenient`
\* is the release that still accepts the token.
Decode(token, now, lenient) ==
    IF TOKENS[token].signature # "valid"
    THEN Raise("InvalidSignatureError", "Invalid token signature")
    ELSE IF TOKENS[token].payload.exp < now
            \/ (~lenient /\ TOKENS[token].payload.exp = now)
    THEN Raise("ExpiredSignatureError", "Token has expired")
    ELSE Ok(TOKENS[token].payload)

\* token_cache[token] = payload: items past their expiry are dropped
Store(cache, token, payload, now) ==
    [t \in TokenIds |->
        IF t = token THEN CacheEntry(payload, now + TOKEN_CACHE_TTL)
        ELSE IF cache[t].cached /\ cache[t].expires < now THEN NOT_CACHED
        ELSE cache[t]]

\* validate_token: the payload or the HTTPException, and the cache
ValidateToken(cache, token, now, lenient_cache, lenient_exp) ==
    IF InCache(cache, token, now, lenient_cache)
    THEN [result |-> Ok(cache[token].payload), cache |-> cache]
    ELSE LET decoded == Decode(token, now, lenient_exp)
         IN  IF decoded.ok
             THEN [result |-> decoded,
                   cache |-> Store(cache, token, decoded.value, now)]
             ELSE [result |-> Raise("HTTPException", decoded.msg),
                   cache |-> cache]

ErrorResponse(code) == [status |-> 401, code |-> code]

\* the response of the route behind the middleware
CallNext(user) == [status |-> 200, code |-> "none", user |-> user]

\* payload["scopes"] = map_role_to_scopes(role) when the claim is missing
WithScopes(payload) ==
    IF "scopes" \in DOMAIN payload THEN payload
    ELSE [k \in DOMAIN payload \cup {"scopes"} |->
             IF k = "scopes"
             THEN ListClaim(MapRoleToScopes(Get(payload, "role", "")))
             ELSE payload[k]]

\* the payload validate_token returned is the dictionary held in the
\* cache: a claim added to it is added to the cached item
WithPayload(cache, token, payload) ==
    [cache EXCEPT ![token] = [@ EXCEPT !.payload = payload]]

NO_HEADER == [kind |-> "none"]
Bearer(token) == [kind |-> "bearer", token |-> token]
Headers ==
    {NO_HEADER, [kind |-> "other"]} \cup {Bearer(token) : token \in TokenIds}

\* JWTMiddleware.dispatch: the response and the cache
Dispatch(cache, path, header, now, lenient_cache, lenient_exp) ==
    IF path \in PUBLIC_PATHS
    THEN [response |-> CallNext(None), cache |-> cache]
    ELSE IF header.kind # "bearer"
    THEN [response |-> ErrorResponse("MISSING_AUTH_HEADER"), cache |-> cache]
    ELSE LET validated ==
                 ValidateToken(cache, header.token, now, lenient_cache,
                               lenient_exp)
             payload == validated.result.value
         IN  IF ~validated.result.ok
             THEN [response |-> ErrorResponse("INVALID_TOKEN"),
                   cache |-> validated.cache]
             ELSE IF "sub" \notin DOMAIN payload
             THEN [response |-> ErrorResponse("MISSING_SUB_CLAIM"),
                   cache |-> validated.cache]
             ELSE IF WithScopes(payload).scopes.type # "list"
             THEN [response |-> ErrorResponse("INVALID_SCOPES_CLAIM"),
                   cache |-> validated.cache]
             ELSE [response |-> CallNext(WithScopes(payload)),
                   cache |-> WithPayload(validated.cache, header.token,
                                         WithScopes(payload))]

(***************************************************************************)
(* State.                                                                  *)
(***************************************************************************)
VARIABLES
    resumes,      \* table resumes: resume id -> row, or NO_RESUME
    children,     \* derived tables: resume id -> table name -> rows
    pc,           \* position of the background job of each resume id
    job,          \* locals of parse_resume_background for each resume id
    invocations,  \* number of invocations of parse_resume_background so far
    call,         \* last direct call of a parsing function and its arguments
    ret,          \* what that call returned or raised
    clock,        \* seconds since the server started
    token_cache   \* jwt.token_cache: token -> payload and time of expiry

jobVars == <<resumes, children, pc, job, invocations>>
fnVars == <<call, ret>>
authVars == <<clock, token_cache>>
vars ==
    <<resumes, children, pc, job, invocations, call, ret, clock, token_cache>>

ResumeIds == 1..NumResumes
Users == {"u1", "u2"}
Tables == {"skills", "experiences", "education", "certifications", "projects"}
FlatFields ==
    {"full_name", "email", "phone", "location", "linkedin_url", "github_url",
     "portfolio_url", "professional_summary", "raw_text"}

\* str(resume.id)
IdString(rid) == <<"i", "d", DIGITS[rid]>>

NO_RESUME == [exists |-> FALSE]
NO_ERROR == [ok |-> TRUE]
NO_FILE == [size |-> 0]
NO_DATA == [raw_text |-> None]
NO_CALL == [outcome |-> "none"]

\* the row upload_resume inserts
NewResume(user_id, file_path) ==
    [exists |-> TRUE, user_id |-> user_id, file_path |-> file_path,
     processing_status |-> "Pending", error_message |-> None,
     last_analyzed_at |-> 0,
     full_name |-> None, email |-> None, phone |-> None, location |-> None,
     linkedin_url |-> None, github_url |-> None, portfolio_url |-> None,
     professional_summary |-> None, raw_text |-> None]

NoChildren == [t \in Tables |-> << >>]

NO_RESPONSE == [kind |-> "unused"]
\* what the database and storage did to the calls of a run, call by call
NO_INPUTS ==
    [start_fault |-> "none", response |-> NO_RESPONSE, commit_fault |-> FALSE,
     end_fault |-> "none"]

\* the locals of one invocation; the fields from failed_at on are a log of
\* the run
NewJob(file_path) ==
    [file_path |-> file_path,
     session |-> "active",
     file_content |-> NO_FILE,
     parsed_data |-> NO_DATA,
     error |-> NO_ERROR,
     failed_at |-> "none",
     decoder |-> "none",
     writes |-> << >>,
     store_fault |-> FALSE,
     last_status_call |-> NO_CALL,
     before |-> [resume |-> NO_RESUME, children |-> NoChildren],
     inputs |-> NO_INPUTS,
     overlapped |-> FALSE]

(***************************************************************************)
(* update_resume_status on the job's session.                              *)
(*   session "deactive": a flush failed on it and rollback() has not been  *)
(*   called; every statement raises PendingRollbackError until it is.      *)
(*   fault: what the database does to this call ("none", "lookup" fails,   *)
(*   "commit" fails).                                                      *)
(***************************************************************************)
StatusFaults == {"none", "lookup", "commit"}

\* the except clause without its handler: the exception reaches the caller
StatusCallFailed_Reraise(rs, session) ==
    [resumes |-> rs, session |-> session, outcome |-> "failed", raised |-> TRUE]

\* the except clause: log, db.rollback(), return
StatusCallFailed(rs, session) ==
    [resumes |-> rs, session |-> "active", outcome |-> "failed", raised |-> FALSE]

\* the assignments with the detail kept when none is given
WithStatus_KeepDetail(resume, status, error_message, now) ==
    [resume EXCEPT !.processing_status = status,
                   !.error_message =
                       IF error_message = None THEN @ ELSE error_message,
                   !.last_analyzed_at = IF status = "Completed" THEN now ELSE @]

\* the time of analysis stamped by every status write
WithStatus_AlwaysStamped(resume, status, error_message, now) ==
    [resume EXCEPT !.processing_status = status,
                   !.error_message = error_message,
                   !.last_analyzed_at = now]

\* the assignments to the row: status, detail and, on Completed, the time
WithStatus(resume, status, error_message, now) ==
    [resume EXCEPT !.processing_status = status,
                   !.error_message = error_message,
                   !.last_analyzed_at = IF status = "Completed" THEN now ELSE @]

\* the call returning before db.commit(): the row is assigned, never stored
UpdateResumeStatus_Unflushed(rs, session, rid, status, error_message, now, fault) ==
    IF session = "deactive" \/ fault = "lookup"
    THEN StatusCallFailed(rs, session)
    ELSE IF rs[rid].exists
    THEN [resumes |-> rs, session |-> session, outcome |-> "stored",
          raised |-> FALSE]
    ELSE [resumes |-> rs, session |-> session, outcome |-> "not_found",
          raised |-> FALSE]

UpdateResumeStatus(rs, session, rid, status, error_message, now, fault) ==
    IF session = "deactive" \/ fault = "lookup"
    THEN StatusCallFailed(rs, session)
    ELSE IF rs[rid].exists
    THEN IF fault = "commit"
         THEN StatusCallFailed(rs, session)
         ELSE [resumes |->
                  [rs EXCEPT ![rid] =
                      WithStatus(@, status, error_message, now)],
               session |-> session, outcome |-> "stored", raised |-> FALSE]
    ELSE [resumes |-> rs, session |-> session, outcome |-> "not_found",
          raised |-> FALSE]

(***************************************************************************)
(* update_resume_with_parsed_data                                          *)
(***************************************************************************)
\* every field assigned from the profile, empty or not
WithFlatFields_Overwriting(resume, parsed_data) ==
    [k \in DOMAIN resume |->
        IF k \in FlatFields THEN Get(parsed_data, k, None) ELSE resume[k]]

\* the contact, summary and raw-text assignments
WithFlatFields(resume, parsed_data) ==
    [k \in DOMAIN resume |->
        IF k \in FlatFields /\ Truthy(Get(parsed_data, k, None))
        THEN parsed_data[k] ELSE resume[k]]

\* the rows db.add()ed for one table
NewRows(rid, parsed_data, table) ==
    LET got == Get(parsed_data, table, << >>)
        items == IF Truthy(got) THEN got ELSE << >>
    IN  IF table = "skills"
        THEN LET idx == {i \in 1..Len(items) :
                            items[i] # None /\ Strip(items[i]) # << >>}
                 all == [i \in 1..Len(items) |->
                            [resume_id |-> rid,
                             skill_name |-> Take(Strip(items[i]), 100),
                             display_order |-> i - 1]]
             IN  SelectSeq(all, LAMBDA r : (r.display_order + 1) \in idx)
        ELSE [i \in 1..Len(items) |->
                 [resume_id |-> rid, description |-> items[i].raw_text,
                  display_order |-> i - 1]]

\* the closing log_info: len() of the skills, experiences and education lists
\* as parsed_data.get(key, []) returned them
ClosingLog(parsed_data) ==
    IF \E t \in {"skills", "experiences", "education"} :
           Get(parsed_data, t, << >>) = None
    THEN Raise("TypeError", MSG_NO_LEN)
    ELSE Ok(None)

\* the rows of table resume_skills, as <<resume id, position>> pairs
SkillRowIds(ch) ==
    UNION {{<<r, i>> : i \in 1..Len(ch[r]["skills"])} : r \in DOMAIN ch}

\* a unique constraint on skill_name alone
SkillsUnique_ByNameOnly(ch) ==
    \A x, y \in SkillRowIds(ch) :
        x # y => ch[x[1]]["skills"][x[2]].skill_name
                    # ch[y[1]]["skills"][y[2]].skill_name

\* UniqueConstraint("resume_id", "skill_name") of resume_skills
SkillsUnique(ch) ==
    \A x, y \in SkillRowIds(ch) :
        x # y =>
            <<ch[x[1]]["skills"][x[2]].resume_id,
              ch[x[1]]["skills"][x[2]].skill_name>>
                # <<ch[y[1]]["skills"][y[2]].resume_id,
                    ch[y[1]]["skills"][y[2]].skill_name>>

\* the record committed on its own before the derived rows are committed
UpdateResumeWithParsedData_TwoCommits(rs, ch, rid, parsed_data, commit_fault) ==
    LET resume == WithFlatFields(rs[rid], parsed_data)
        rows == [t \in Tables |-> ch[rid][t] \o NewRows(rid, parsed_data, t)]
        stored == [rs EXCEPT ![rid] = resume]
    IN  IF commit_fault
        THEN [resumes |-> stored, children |-> ch, session |-> "deactive",
              result |-> Raise("OperationalError", MSG_DB_DOWN)]
        ELSE IF ~SkillsUnique([ch EXCEPT ![rid] = rows])
        THEN [resumes |-> stored, children |-> ch, session |-> "deactive",
              result |-> Raise("IntegrityError", MSG_DUPLICATE_KEY)]
        ELSE [resumes |-> stored, children |-> [ch EXCEPT ![rid] = rows],
              session |-> "active", result |-> ClosingLog(parsed_data)]

\* a failed commit rolled back and not reported to the caller
UpdateResumeWithParsedData_Swallowed(rs, ch, rid, parsed_data, commit_fault) ==
    LET resume == WithFlatFields(rs[rid], parsed_data)
        rows == [t \in Tables |-> ch[rid][t] \o NewRows(rid, parsed_data, t)]
    IN  IF commit_fault \/ ~SkillsUnique([ch EXCEPT ![rid] = rows])
        THEN [resumes |-> rs, children |-> ch, session |-> "active",
              result |-> Ok(None)]
        ELSE [resumes |-> [rs EXCEPT ![rid] = resume],
              children |-> [ch EXCEPT ![rid] = rows],
              session |-> "active", result |-> ClosingLog(parsed_data)]

\* db.commit() flushes every pending change in one transaction; when the
\* flush fails nothing is stored and the session is left deactive; the
\* closing log statement runs after the commit
UpdateResumeWithParsedData(rs, ch, rid, parsed_data, commit_fault) ==
    LET resume == WithFlatFields(rs[rid], parsed_data)
        rows == [t \in Tables |-> ch[rid][t] \o NewRows(rid, parsed_data, t)]
    IN  IF commit_fault
        THEN [resumes |-> rs, children |-> ch, session |-> "deactive",
              result |-> Raise("OperationalError", MSG_DB_DOWN)]
        ELSE IF ~SkillsUnique([ch EXCEPT ![rid] = rows])
        THEN [resumes |-> rs, children |-> ch, session |-> "deactive",
              result |-> Raise("IntegrityError", MSG_DUPLICATE_KEY)]
        ELSE [resumes |-> [rs EXCEPT ![rid] = resume],
              children |-> [ch EXCEPT ![rid] = rows],
              session |-> "active", result |-> ClosingLog(parsed_data)]

(***************************************************************************)
(* get_parse_status                                                        *)
(***************************************************************************)
StatusMessage(status) ==
    CASE status = "Pending" -> "Resume is queued for parsing"
      [] status = "Processing" -> "Parsing resume content..."
      [] status = "Completed" -> "Resume parsed successfully"
      [] status = "Failed" -> "Failed to parse resume"
      [] OTHER -> "Unknown status"

GetParseStatus(rs, rid, user_id) ==
    IF ~rs[rid].exists \/ rs[rid].user_id # user_id
    THEN [found |-> FALSE]
    ELSE [found |-> TRUE, id |-> rid,
          status |-> rs[rid].processing_status,
          message |-> StatusMessage(rs[rid].processing_status),
          error_details |-> IF rs[rid].processing_status = "Failed"
                            THEN rs[rid].error_message ELSE None]

(***************************************************************************)
(* Initial state: no resume uploaded, no job, no call made.                *)
(***************************************************************************)
JobInit ==
    /\ resumes = [rid \in ResumeIds |-> NO_RESUME]
    /\ children = [rid \in ResumeIds |-> NoChildren]
    /\ pc = [rid \in ResumeIds |-> "idle"]
    /\ job = [rid \in ResumeIds |-> [session |-> "closed"]]
    /\ invocations = 0

FnIdle ==
    /\ call = [op |-> "none"]
    /\ ret = [op |-> "none"]

AuthInit ==
    /\ clock = 0
    /\ token_cache = [token \in TokenIds |-> NOT_CACHED]

Init == JobInit /\ FnIdle /\ AuthInit

(***************************************************************************)
(* Requests of the API that create, re-run and delete.                     *)
(***************************************************************************)
\* POST /upload: insert the row as Pending and queue the background task.
\* Resume ids are fresh uuid4 values, so an id is uploaded at most once.
UploadResume(rid, user_id, file_path) ==
    /\ pc[rid] = "idle"
    /\ invocations < MaxInvocations
    /\ resumes' = [resumes EXCEPT ![rid] = NewResume(user_id, file_path)]
    /\ pc' = [pc EXCEPT ![rid] = "queued"]
    /\ job' = [job EXCEPT ![rid] = NewJob(file_path)]
    /\ invocations' = invocations + 1
    /\ UNCHANGED <<children, call, ret, authVars>>

\* parse_resume_background invoked again for a resume id whose job has ended
Reinvoke(rid, file_path) ==
    /\ pc[rid] = "done"
    /\ invocations < MaxInvocations
    /\ pc' = [pc EXCEPT ![rid] = "queued"]
    /\ job' = [job EXCEPT ![rid] = NewJob(file_path)]
    /\ invocations' = invocations + 1
    /\ UNCHANGED <<resumes, children, call, ret, authVars>>

\* DELETE /{resume_id}: the row and its derived rows go in one commit.
\* Only a deletion between the enqueueing of a job and its start is modelled
\* (the record "vanished between enqueue and run").
DeleteResume(rid) ==
    /\ resumes[rid].exists
    /\ pc[rid] = "queued"
    /\ resumes' = [resumes EXCEPT ![rid] = NO_RESUME]
    /\ children' = [children EXCEPT ![rid] = NoChildren]
    /\ UNCHANGED <<pc, job, invocations, call, ret, authVars>>

(***************************************************************************)
(* parse_resume_background, one action per database or storage step.       *)
(***************************************************************************)
\* every exception handled by the generic clause
ErrorMessage_AlwaysWrapped(exc) ==
    ParseErrorWith("UnexpectedError", exc.msg)

\* str(e) in `except ValueError`, the wrapped message in `except Exception`
ErrorMessage(exc) ==
    IF exc.type = "ValueError" THEN exc.msg
    ELSE ParseErrorWith("UnexpectedError", exc.msg)

\* the job's locals after a call of update_resume_status
AfterStatusCall(j, rs, r, status, fault) ==
    [j EXCEPT
        !.session = r.session,
        !.store_fault = @ \/ fault # "none",
        !.last_status_call = [status |-> status, outcome |-> r.outcome],
        !.writes = IF r.outcome = "stored"
                   THEN Append(@, status) ELSE @]

\* the job's locals when a step raised exc
WithError(j, exc, step) == [j EXCEPT !.error = exc, !.failed_at = step]

\* the positions of a job between its first and its last statement
InFlight ==
    {"lookup", "download", "parse", "persist", "mark_completed", "mark_failed"}

\* db = SessionLocal(); update_resume_status(resume_uuid, "Processing", db=db)
JobStart(rid) ==
    /\ pc[rid] = "queued"
    /\ \E fault \in StatusFaults :
          LET r == UpdateResumeStatus(resumes, "active", rid, "Processing",
                                      None, invocations, fault)
              j == AfterStatusCall(
                       [job[rid] EXCEPT
                           !.before = [resume |-> resumes[rid],
                                       children |-> children[rid]],
                           !.inputs.start_fault = fault,
                           !.overlapped = \E o \in DOMAIN pc :
                                             o # rid /\ pc[o] \in InFlight],
                       resumes, r, "Processing", fault)
          IN  /\ resumes' = r.resumes
              /\ IF r.raised
                 THEN /\ job' = [job EXCEPT ![rid] =
                                    WithError(j, Raise("Exception", MSG_DB_DOWN),
                                              "status")]
                      /\ pc' = [pc EXCEPT ![rid] = "mark_failed"]
                 ELSE /\ job' = [job EXCEPT ![rid] = j]
                      /\ pc' = [pc EXCEPT ![rid] = "lookup"]
    /\ UNCHANGED <<children, invocations, call, ret, authVars>>

\* the lookup without its `if not resume: raise`
JobLookup_Unchecked(rid) ==
    /\ pc[rid] = "lookup"
    /\ pc' = [pc EXCEPT ![rid] = "download"]
    /\ UNCHANGED <<job, resumes, children, invocations, call, ret, authVars>>

\* resume = db.exec(select(Resume).where(Resume.id == resume_uuid)).first()
JobLookup(rid) ==
    /\ pc[rid] = "lookup"
    /\ IF resumes[rid].exists
       THEN /\ pc' = [pc EXCEPT ![rid] = "download"]
            /\ UNCHANGED job
       ELSE /\ pc' = [pc EXCEPT ![rid] = "mark_failed"]
            /\ job' = [job EXCEPT ![rid] =
                          WithError(@, Raise("ValueError",
                                             ParseErrorWith("ResumeNotFound",
                                                            IdString(rid))),
                                    "lookup")]
    /\ UNCHANGED <<resumes, children, invocations, call, ret, authVars>>

\* file_content = download_resume_file(file_path)
JobDownload(rid) ==
    /\ pc[rid] = "download"
    /\ \E response \in JobResponses :
          LET r == DownloadResumeFile(job[rid].file_path, response)
          IN  IF r.ok
              THEN /\ job' = [job EXCEPT ![rid].file_content = r.value,
                                         ![rid].inputs.response = response]
                   /\ pc' = [pc EXCEPT ![rid] = "parse"]
              ELSE /\ job' = [job EXCEPT ![rid] =
                                 [WithError(@, r, "download") EXCEPT
                                     !.inputs.response = response]]
                   /\ pc' = [pc EXCEPT ![rid] = "mark_failed"]
    /\ UNCHANGED <<resumes, children, invocations, call, ret, authVars>>

\* parsed_data = parse_resume_content(file_content, file_path)
JobParse(rid) ==
    /\ pc[rid] = "parse"
    /\ LET p == ParseResumeContent(job[rid].file_content, job[rid].file_path)
       IN  IF p.result.ok
           THEN /\ job' = [job EXCEPT ![rid].parsed_data = p.result.value,
                                      ![rid].decoder = p.decoder]
                /\ pc' = [pc EXCEPT ![rid] = "persist"]
           ELSE /\ job' = [job EXCEPT ![rid] =
                              [WithError(@, p.result, "parse") EXCEPT
                                  !.decoder = p.decoder]]
                /\ pc' = [pc EXCEPT ![rid] = "mark_failed"]
    /\ UNCHANGED <<resumes, children, invocations, call, ret, authVars>>

\* update_resume_with_parsed_data(resume, parsed_data, db)
JobPersist(rid) ==
    /\ pc[rid] = "persist"
    /\ \E commit_fault \in BOOLEAN :
          LET r == UpdateResumeWithParsedData(resumes, children, rid,
                                              job[rid].parsed_data, commit_fault)
          IN  /\ resumes' = r.resumes
              /\ children' = r.children
              /\ IF r.result.ok
                 THEN /\ job' = [job EXCEPT
                                    ![rid].session = r.session,
                                    ![rid].inputs.commit_fault = commit_fault]
                      /\ pc' = [pc EXCEPT ![rid] = "mark_completed"]
                 ELSE /\ job' = [job EXCEPT ![rid] =
                                    [WithError(@, r.result, "persist") EXCEPT
                                        !.session = r.session,
                                        !.inputs.commit_fault = commit_fault]]
                      /\ pc' = [pc EXCEPT ![rid] = "mark_failed"]
    /\ UNCHANGED <<invocations, call, ret, authVars>>

\* update_resume_status(resume_uuid, "Completed", db=db); finally db.close()
JobMarkCompleted(rid) ==
    /\ pc[rid] = "mark_completed"
    /\ \E fault \in StatusFaults :
          LET r == UpdateResumeStatus(resumes, job[rid].session, rid,
                                      "Completed", None, invocations, fault)
              j == AfterStatusCall(job[rid], resumes, r, "Completed", fault)
          IN  /\ resumes' = r.resumes
              /\ IF r.raised
                 THEN /\ job' = [job EXCEPT ![rid] =
                                    WithError(j, Raise("Exception", MSG_DB_DOWN),
                                              "status")]
                      /\ pc' = [pc EXCEPT ![rid] = "mark_failed"]
                 ELSE /\ job' = [job EXCEPT ![rid] =
                                    [j EXCEPT !.session = "closed",
                                              !.inputs.end_fault = fault]]
                      /\ pc' = [pc EXCEPT ![rid] = "done"]
    /\ UNCHANGED <<children, invocations, call, ret, authVars>>

\* the except clauses: update_resume_status(resume_uuid, "Failed",
\* error_message=error_msg, db=db); finally db.close()
JobMarkFailed(rid) ==
    /\ pc[rid] = "mark_failed"
    /\ \E fault \in StatusFaults :
          LET r == UpdateResumeStatus(resumes, job[rid].session, rid, "Failed",
                                      ErrorMessage(job[rid].error),
                                      invocations, fault)
              j == AfterStatusCall(job[rid], resumes, r, "Failed", fault)
          IN  /\ resumes' = r.resumes
              /\ job' = [job EXCEPT ![rid] =
                            [j EXCEPT !.session = "closed",
                                      !.inputs.end_fault = fault]]
              /\ pc' = [pc EXCEPT ![rid] = IF r.raised THEN "crashed" ELSE "done"]
    /\ UNCHANGED <<children, invocations, call, ret, authVars>>

JobNext ==
    \E rid \in ResumeIds :
        \/ \E user_id \in Users, file_path \in UploadPaths :
              UploadResume(rid, user_id, file_path)
        \/ \E file_path \in JobPaths : Reinvoke(rid, file_path)
        \/ DeleteResume(rid)
        \/ JobStart(rid)
        \/ JobLookup(rid)
        \/ JobDownload(rid)
        \/ JobParse(rid)
        \/ JobPersist(rid)
        \/ JobMarkCompleted(rid)
        \/ JobMarkFailed(rid)

Next == JobNext

Spec == Init /\ [][Next]_vars

(***************************************************************************)
(* Jobs of several documents, each uploaded once, run interleaved.         *)
(***************************************************************************)
Documents == 1..NumDocuments

InitInterleaved ==
    /\ resumes = [rid \in Documents |-> NO_RESUME]
    /\ children = [rid \in Documents |-> NoChildren]
    /\ pc = [rid \in Documents |-> "idle"]
    /\ job = [rid \in Documents |-> [session |-> "closed"]]
    /\ invocations = 0
    /\ FnIdle
    /\ AuthInit

NextInterleaved ==
    \E rid \in Documents :
        \/ UploadResume(rid, "u1", PATH_PDF)
        \/ DeleteResume(rid)
        \/ JobStart(rid)
        \/ JobLookup(rid)
        \/ JobDownload(rid)
        \/ JobParse(rid)
        \/ JobPersist(rid)
        \/ JobMarkCompleted(rid)
        \/ JobMarkFailed(rid)

SpecInterleaved == InitInterleaved /\ [][NextInterleaved]_vars

(***************************************************************************)
(* parse_resume_background run from its first statement to its last on a   *)
(* database that holds the one document and nothing else.                  *)
(***************************************************************************)
\* the except clauses and what they leave stored
RunAloneFailed(rid, rs, ch, session, exc, inputs, now) ==
    LET r == UpdateResumeStatus(rs, session, rid, "Failed", ErrorMessage(exc),
                                now, inputs.end_fault)
    IN  [resume |-> r.resumes[rid], children |-> ch[rid]]

RunAlone(rid, resume, rows, file_path, inputs, now) ==
    LET rs0 == [r \in {rid} |-> resume]
        ch0 == [r \in {rid} |-> rows]
        started == UpdateResumeStatus(rs0, "active", rid, "Processing", None,
                                      now, inputs.start_fault)
        rs1 == started.resumes
    IN  IF ~rs1[rid].exists
        THEN RunAloneFailed(rid, rs1, ch0, started.session,
                            Raise("ValueError",
                                  ParseErrorWith("ResumeNotFound", IdString(rid))),
                            inputs, now)
        ELSE LET file_content == DownloadResumeFile(file_path, inputs.response)
             IN  IF ~file_content.ok
                 THEN RunAloneFailed(rid, rs1, ch0, started.session,
                                     file_content, inputs, now)
                 ELSE LET parsed_data == ParseResumeContent(file_content.value,
                                                            file_path).result
                      IN  IF ~parsed_data.ok
                          THEN RunAloneFailed(rid, rs1, ch0, started.session,
                                              parsed_data, inputs, now)
                          ELSE LET stored == UpdateResumeWithParsedData(
                                                 rs1, ch0, rid, parsed_data.value,
                                                 inputs.commit_fault)
                               IN  IF ~stored.result.ok
                                   THEN RunAloneFailed(rid, stored.resumes,
                                                       stored.children,
                                                       stored.session,
                                                       stored.result, inputs, now)
                                   ELSE [resume |->
                                            UpdateResumeStatus(
                                                stored.resumes, stored.session,
                                                rid, "Completed", None, now,
                                                inputs.end_fault).resumes[rid],
                                         children |-> stored.children[rid]]

(***************************************************************************)
(* Direct calls of the retrieval and decoding functions on sample inputs.  *)
(***************************************************************************)
CallDownloadResumeFile ==
    /\ \E file_path \in Paths, response \in StorageResponses :
          /\ call' = [op |-> "download_resume_file", file_path |-> file_path,
                      response |-> response]
          /\ ret' = DownloadResumeFile(file_path, response)
    /\ UNCHANGED <<jobVars, authVars>>

CallParsePdfResume ==
    /\ \E file_content \in Files :
          /\ call' = [op |-> "parse_pdf_resume", file_content |-> file_content]
          /\ ret' = ParsePdfResume(file_content)
    /\ UNCHANGED <<jobVars, authVars>>

CallParseDocxResume ==
    /\ \E file_content \in Files :
          /\ call' = [op |-> "parse_docx_resume", file_content |-> file_content]
          /\ ret' = ParseDocxResume(file_content)
    /\ UNCHANGED <<jobVars, authVars>>

CallParseResumeContent ==
    /\ \E file_content \in Files, file_path \in Paths :
          /\ call' = [op |-> "parse_resume_content",
                      file_content |-> file_content, file_path |-> file_path]
          /\ ret' = ParseResumeContent(file_content, file_path)
    /\ UNCHANGED <<jobVars, authVars>>

\* profiles handed to update_resume_with_parsed_data: the profile extracted
\* from a full text, and that profile with one key, or every key, holding
\* None or missing
FULL_PROFILE == ExtractStructuredData(GOOD_TEXT, ENTITIES_FULL)
ProfileKeys == DOMAIN FULL_PROFILE
WithNone(profile, keys) ==
    [k \in DOMAIN profile |-> IF k \in keys THEN None ELSE profile[k]]
Without(profile, keys) == [k \in (DOMAIN profile) \ keys |-> profile[k]]
ProfileSamples ==
    {FULL_PROFILE, WithNone(FULL_PROFILE, ProfileKeys),
     Without(FULL_PROFILE, ProfileKeys)}
    \cup {WithNone(FULL_PROFILE, {k}) : k \in ProfileKeys}
    \cup {Without(FULL_PROFILE, {k}) : k \in ProfileKeys}

\* the record the profile is persisted to, as upload_resume stored it
SAMPLE_RESUMES == [rid \in {1} |-> NewResume("u1", PATH_PDF)]
SAMPLE_CHILDREN == [rid \in {1} |-> NoChildren]

CallUpdateResumeWithParsedData ==
    /\ \E parsed_data \in ProfileSamples :
          /\ call' = [op |-> "update_resume_with_parsed_data",
                      parsed_data |-> parsed_data]
          /\ ret' = UpdateResumeWithParsedData(SAMPLE_RESUMES, SAMPLE_CHILDREN,
                                               1, parsed_data, FALSE)
    /\ UNCHANGED <<jobVars, authVars>>

NextFn ==
    \/ CallDownloadResumeFile
    \/ CallParsePdfResume
    \/ CallParseDocxResume
    \/ CallParseResumeContent
    \/ CallUpdateResumeWithParsedData

SpecFn == Init /\ [][NextFn]_vars

(***************************************************************************)
(* Requests through the middleware, as time passes.                        *)
(***************************************************************************)
RequestPaths == {"/health", "/protected"}

AuthRequest ==
    /\ \E path \in RequestPaths, header \in Headers,
          lenient_cache \in BOOLEAN, lenient_exp \in BOOLEAN :
          LET out == Dispatch(token_cache, path, header, clock, lenient_cache,
                              lenient_exp)
          IN  /\ call' = [op |-> "dispatch", path |-> path,
                           header |-> header, at |-> clock]
              /\ ret' = out.response
              /\ token_cache' = out.cache
    /\ UNCHANGED <<jobVars, clock>>

AuthTick ==
    /\ clock < LastSecond
    /\ clock' = clock + SecondsPerTick
    /\ UNCHANGED <<jobVars, fnVars, token_cache>>

NextAuth ==
    \/ AuthRequest
    \/ AuthTick

SpecAuth == Init /\ [][NextAuth]_vars

(***************************************************************************)
(* Direct calls of the segmenter and of the section parsers.               *)
(***************************************************************************)
\* the arguments of a call that has not been made yet
Args(fn, text) == [op |-> "args", fn |-> fn, text |-> text]

InitExtract ==
    /\ JobInit
    /\ call \in {Args("_extract_section_content", text) : text \in SampleTexts}
               \cup {Args("_parse_skills_section", text) :
                        text \in SampleSkillTexts}
               \cup {Args("_parse_experience_section", text) :
                        text \in SampleExperienceTexts}
               \cup {Args("_parse_education_section", text) :
                        text \in SampleEducationTexts}
               \cup {Args("_extract_name", text) : text \in SampleNameTexts}
    /\ ret = [op |-> "none"]
    /\ AuthInit

\* the six calls extract_structured_data makes on one text
CallExtractSectionContent ==
    /\ call.op = "args"
    /\ call.fn = "_extract_section_content"
    /\ call' = [op |-> call.fn, text |-> call.text]
    /\ ret' = [section_name \in SectionNames |->
                  ExtractSectionContent(call.text, section_name)]
    /\ UNCHANGED <<jobVars, authVars>>

CallParseSkillsSection ==
    /\ call.op = "args"
    /\ call.fn = "_parse_skills_section"
    /\ call' = [op |-> call.fn, text |-> call.text]
    /\ ret' = ParseSkillsSection(call.text)
    /\ UNCHANGED <<jobVars, authVars>>

CallParseExperienceSection ==
    /\ call.op = "args"
    /\ call.fn = "_parse_experience_section"
    /\ call' = [op |-> call.fn, text |-> call.text]
    /\ ret' = ParseExperienceSection(call.text)
    /\ UNCHANGED <<jobVars, authVars>>

CallParseEducationSection ==
    /\ call.op = "args"
    /\ call.fn = "_parse_education_section"
    /\ call' = [op |-> call.fn, text |-> call.text]
    /\ ret' = ParseEducationSection(call.text)
    /\ UNCHANGED <<jobVars, authVars>>

CallExtractName ==
    /\ call.op = "args"
    /\ call.fn = "_extract_name"
    /\ call' = [op |-> call.fn, text |-> call.text]
    /\ ret' = ExtractName(call.text)
    /\ UNCHANGED <<jobVars, authVars>>

NextExtract ==
    \/ CallExtractSectionContent
    \/ CallParseSkillsSection
    \/ CallParseExperienceSection
    \/ CallParseEducationSection
    \/ CallExtractName

SpecExtract == InitExtract /\ [][NextExtract]_vars

(***************************************************************************)
(* Properties of the ingestion job (checked under Spec).                   *)
(***************************************************************************)
TerminalStatuses == {"Completed", "Failed"}

\* the statuses a run moved the record through, starting from the stored one
StatusChain(rid) ==
    <<job[rid].before.resume.processing_status>> \o job[rid].writes

ForbiddenMoves ==
    {<<"Pending", "Completed">>, <<"Pending", "Failed">>,
     <<"Completed", "Failed">>, <<"Failed", "Completed">>}

\* C1: the status writes of an ended invocation are Processing followed by
\* exactly one terminal write, and no write moves the record from Pending to
\* a terminal status or between Completed and Failed.  Invocations one of
\* whose status calls was failed by the database are left aside: the claim
\* is read as C2 is, with the status store operational.
C1_StatusWritesFollowStateMachine ==
    \A rid \in ResumeIds :
        (pc[rid] = "done" /\ job[rid].writes # << >> /\ ~job[rid].store_fault) =>
            /\ Len(job[rid].writes) = 2
            /\ job[rid].writes[1] = "Processing"
            /\ job[rid].writes[2] \in TerminalStatuses
            /\ \A i \in 1..(Len(StatusChain(rid)) - 1) :
                  <<StatusChain(rid)[i], StatusChain(rid)[i + 1]>>
                      \notin ForbiddenMoves

\* C2: an invocation for an existing record, none of whose status calls was
\* failed by the database, ends with the record Completed or Failed.
C2_RunEndsInTerminalStatus ==
    \A rid \in ResumeIds :
        (pc[rid] = "done" /\ resumes[rid].exists /\ ~job[rid].store_fault) =>
            resumes[rid].processing_status \in TerminalStatuses

\* the contact, summary and raw-text columns of a row
FlatPart(resume) == [f \in FlatFields |-> resume[f]]

\* none of the run's persistence is stored
NothingPersisted(rid) ==
    /\ FlatPart(resumes[rid]) = FlatPart(job[rid].before.resume)
    /\ children[rid] = job[rid].before.children

\* all of the run's persistence is stored
EverythingPersisted(rid) ==
    /\ job[rid].parsed_data # NO_DATA
    /\ \A f \in FlatFields :
          resumes[rid][f] =
              IF Truthy(job[rid].parsed_data[f])
              THEN job[rid].parsed_data[f]
              ELSE job[rid].before.resume[f]
    /\ \A t \in Tables :
          /\ Len(children[rid][t]) =
                Len(job[rid].before.children[t]) + Len(job[rid].parsed_data[t])
          /\ SubSeq(children[rid][t], 1, Len(job[rid].before.children[t]))
                = job[rid].before.children[t]

\* C3: after a run has ended, whatever step failed, either all of its derived
\* rows and contact/summary/raw-text updates are stored or none of them are.
C3_PersistenceAtomic ==
    \A rid \in ResumeIds :
        (pc[rid] = "done" /\ resumes[rid].exists) =>
            NothingPersisted(rid) \/ EverythingPersisted(rid)

\* a run whose persistence commit failed, followed by the Failed status call
\* on the same session, for a profile that carries rows and fields
C3_Witness ==
    \E rid \in ResumeIds :
        /\ pc[rid] = "done"
        /\ resumes[rid].exists
        /\ job[rid].failed_at = "persist"
        /\ job[rid].last_status_call.status = "Failed"
        /\ job[rid].parsed_data.skills # << >>
        /\ Truthy(job[rid].parsed_data.raw_text)

\* what a status-polling client that owns the record is shown
PolledDetail(rid) ==
    GetParseStatus(resumes, rid, resumes[rid].user_id).error_details

\* C4 as stated: a run that failed with a classified error of retrieval,
\* decoding or the record lookup leaves the record Failed with that error's
\* message as detail, and polling returns the same string.
C4_ClassifiedFailureIsStored ==
    \A rid \in ResumeIds :
        (/\ pc[rid] = "done"
         /\ job[rid].failed_at \in {"download", "parse", "lookup"}
         /\ Classification(job[rid].error.msg) \in ErrorNames) =>
            /\ resumes[rid].exists
            /\ resumes[rid].processing_status = "Failed"
            /\ resumes[rid].error_message = job[rid].error.msg
            /\ PolledDetail(rid) = job[rid].error.msg

\* C4 amended: a run for an existing record that failed with a classified
\* error of retrieval or decoding, and whose Failed status write was stored,
\* leaves the record Failed with that error's message as detail, and polling
\* by the owner returns the same string.
C4_StoredFailureIsVerbatim ==
    \A rid \in ResumeIds :
        (/\ pc[rid] = "done"
         /\ job[rid].failed_at \in {"download", "parse"}
         /\ Classification(job[rid].error.msg) \in ErrorNames
         /\ job[rid].last_status_call.outcome = "stored") =>
            /\ resumes[rid].exists
            /\ resumes[rid].processing_status = "Failed"
            /\ resumes[rid].error_message = job[rid].error.msg
            /\ PolledDetail(rid) = job[rid].error.msg

\* a run failed by retrieval whose detail carries more than the bare name
C4_Witness ==
    \E rid \in ResumeIds :
        /\ pc[rid] = "done"
        /\ job[rid].failed_at = "download"
        /\ job[rid].last_status_call.outcome = "stored"
        /\ resumes[rid].processing_status = "Failed"
        /\ Len(resumes[rid].error_message) > Len(ParseError("DownloadFailed"))
        /\ PolledDetail(rid) = job[rid].error.msg

\* C5: every detail stored with status Failed begins with "ParseError: "
\* followed by a name of the taxonomy.
C5_FailedDetailIsClassified ==
    \A rid \in ResumeIds :
        (resumes[rid].exists /\ resumes[rid].processing_status = "Failed") =>
            Classification(resumes[rid].error_message) \in ErrorNames

\* the position a job is in after a status call that returned normally
AfterStatus(position) == IF position = "queued" THEN "lookup" ELSE "done"

\* C10: a call of update_resume_status whose lookup or commit fails leaves
\* the stored rows unchanged and returns normally: the job goes on to the
\* step that follows the call.
C10_StatusFailureIsSwallowed ==
    [][\A rid \in ResumeIds :
          (/\ pc[rid] \in {"queued", "mark_completed", "mark_failed"}
           /\ pc'[rid] # pc[rid]
           /\ job'[rid].last_status_call.outcome = "failed") =>
              /\ resumes' = resumes
              /\ pc'[rid] = AfterStatus(pc[rid])]_vars

\* the Processing write failed and the job went on to look the record up
C10_Witness ==
    \E rid \in ResumeIds :
        /\ pc[rid] = "lookup"
        /\ job[rid].last_status_call.outcome = "failed"
        /\ job[rid].store_fault
        /\ resumes[rid].exists
        /\ resumes[rid].processing_status = "Pending"

\* the positions of a job from byte retrieval on
FromRetrieval ==
    {"download", "parse", "persist", "mark_completed", "mark_failed", "done"}

\* C12 as stated: from byte retrieval on, the stored status of the record
\* the job runs for is never Pending.
C12_NeverPendingFromRetrieval ==
    \A rid \in ResumeIds :
        (pc[rid] \in FromRetrieval /\ resumes[rid].exists) =>
            resumes[rid].processing_status # "Pending"

\* C12 amended: when the Processing write of the run was stored, the stored
\* status is never Pending from byte retrieval on.
C12_StoredProcessingBeforeRetrieval ==
    \A rid \in ResumeIds :
        (/\ pc[rid] \in FromRetrieval
         /\ resumes[rid].exists
         /\ job[rid].writes # << >>
         /\ job[rid].writes[1] = "Processing") =>
            resumes[rid].processing_status # "Pending"

\* the bytes of a freshly uploaded record are retrieved and not yet decoded:
\* Processing is stored and is the only write so far
C12_Witness ==
    \E rid \in ResumeIds :
        /\ pc[rid] = "parse"
        /\ job[rid].before.resume.processing_status = "Pending"
        /\ job[rid].writes = <<"Processing">>
        /\ resumes[rid].processing_status = "Processing"

\* C14: the stored error detail is non-null only while the status is
\* Failed; a Processing or Completed write that was stored leaves no detail,
\* and a stored Failed write leaves the detail of the run that wrote it.
C14_DetailOnlyWhileFailed ==
    \A rid \in ResumeIds :
        resumes[rid].exists =>
            /\ resumes[rid].error_message # None =>
                   resumes[rid].processing_status = "Failed"
            /\ (/\ pc[rid] \in {"lookup", "done"}
                /\ job[rid].last_status_call.outcome = "stored") =>
                   /\ resumes[rid].processing_status =
                         job[rid].last_status_call.status
                   /\ resumes[rid].error_message =
                         IF job[rid].last_status_call.status = "Failed"
                         THEN ErrorMessage(job[rid].error) ELSE None

\* the Processing write of a second run has cleared the detail that the
\* first, failed run left on the record
C14_Witness ==
    \E rid \in ResumeIds :
        /\ pc[rid] = "lookup"
        /\ job[rid].before.resume.exists
        /\ job[rid].before.resume.processing_status = "Failed"
        /\ job[rid].before.resume.error_message # None
        /\ resumes[rid].processing_status = "Processing"
        /\ resumes[rid].error_message = None

\* C16: a run that finds no record with its id fails at the record lookup,
\* classified ResumeNotFound, before any byte is retrieved; it persists
\* nothing, creates no record and no derived row, and returns normally.
C16_ResumeNotFoundBeforeRetrieval ==
    \A rid \in ResumeIds :
        (/\ pc[rid] \in {"download", "parse", "persist", "mark_completed",
                          "mark_failed", "done", "crashed"}
         /\ ~job[rid].before.resume.exists) =>
            /\ pc[rid] \in {"mark_failed", "done"}
            /\ job[rid].failed_at = "lookup"
            /\ Classification(ErrorMessage(job[rid].error)) = "ResumeNotFound"
            /\ job[rid].file_content = NO_FILE
            /\ job[rid].parsed_data = NO_DATA
            /\ job[rid].writes = << >>
            /\ ~resumes[rid].exists
            /\ children[rid] = NoChildren

\* the record was deleted between enqueue and run and the run has returned
C16_Witness ==
    \E rid \in ResumeIds :
        /\ pc[rid] = "done"
        /\ ~job[rid].before.resume.exists
        /\ job[rid].last_status_call = [status |-> "Failed",
                                        outcome |-> "not_found"]
        /\ ~resumes[rid].exists

\* the rows a run of the job adds for its profile
RowsOfRun(rid) ==
    [t \in Tables |-> NewRows(rid, job[rid].parsed_data, t)]

\* the run repeats, on the same document and without clearing in between, a
\* run that ended Completed, and the database failed none of its statements
\* of its own accord
RepeatsCompletedRun(rid) ==
    /\ pc[rid] = "done"
    /\ job[rid].before.resume.exists
    /\ job[rid].before.resume.processing_status = "Completed"
    /\ job[rid].parsed_data # NO_DATA
    /\ job[rid].before.resume.raw_text = job[rid].parsed_data.raw_text
    /\ job[rid].before.children = RowsOfRun(rid)
    /\ ~job[rid].store_fault
    /\ ~job[rid].inputs.commit_fault

\* C15: a run that repeats, for the same document and without clearing in
\* between, a run that ended Completed ends Completed too and leaves, in
\* each derived table, the earlier rows followed by the same rows again.
C15_RerunAppendsRows ==
    \A rid \in ResumeIds :
        RepeatsCompletedRun(rid) =>
            /\ resumes[rid].processing_status = "Completed"
            /\ \A t \in Tables :
                  children[rid][t] =
                      job[rid].before.children[t] \o RowsOfRun(rid)[t]

\* the run of the job has stored the status Completed
WroteCompleted(rid) ==
    /\ pc[rid] # "idle"
    /\ \E i \in 1..Len(job[rid].writes) : job[rid].writes[i] = "Completed"

\* C28: a run that has written Completed has before that committed the
\* whole of its profile, and a run in which retrieval, decoding and
\* extraction or the persistence commit failed has not written Completed.
C28_CompletedOnlyAfterCommit ==
    \A rid \in ResumeIds :
        /\ WroteCompleted(rid) =>
              /\ job[rid].failed_at = "none"
              /\ ~job[rid].inputs.commit_fault
              /\ EverythingPersisted(rid)
        /\ (pc[rid] # "idle"
                /\ job[rid].failed_at \in {"download", "parse", "persist"}) =>
              ~WroteCompleted(rid)

\* a run that ended Completed with rows and fields stored
C28_Witness ==
    \E rid \in ResumeIds :
        /\ pc[rid] = "done"
        /\ job[rid].writes = <<"Processing", "Completed">>
        /\ resumes[rid].processing_status = "Completed"
        /\ job[rid].parsed_data.skills # << >>
        /\ resumes[rid].raw_text = job[rid].parsed_data.raw_text
        /\ children[rid] = RowsOfRun(rid)

\* the run ended with the record Failed after retrieval or decoding failed
EndedFailedBeforePersisting(rid) ==
    /\ pc[rid] = "done"
    /\ job[rid].failed_at \in {"download", "parse"}
    /\ resumes[rid].exists
    /\ resumes[rid].processing_status = "Failed"

HasPersisted(rid) ==
    /\ pc[rid] \in {"mark_completed", "done"}
    /\ job[rid].failed_at = "none"
    /\ job[rid].parsed_data # NO_DATA
    /\ resumes[rid].exists

\* C30: after update_resume_with_parsed_data, a contact, summary or
\* raw-text field holds the profile's value when that value is not empty
\* and the value it held before the run when the profile's is absent or
\* empty.
C30_PersistenceNeverBlanks ==
    \A rid \in ResumeIds :
        HasPersisted(rid) =>
            \A f \in FlatFields :
                LET value == Get(job[rid].parsed_data, f, None)
                IN  /\ (value # None /\ value # << >>) => resumes[rid][f] = value
                    /\ (value = None \/ value = << >>) =>
                          resumes[rid][f] = job[rid].before.resume[f]

\* a second run whose profile has no name and an empty text for a record
\* the first run gave both: the name and the text of the first run are
\* still stored
C30_Witness ==
    \E rid \in ResumeIds :
        /\ HasPersisted(rid)
        /\ job[rid].parsed_data.full_name = None
        /\ job[rid].before.resume.full_name # None
        /\ resumes[rid].full_name = job[rid].before.resume.full_name
        /\ job[rid].parsed_data.raw_text = << >>
        /\ job[rid].before.resume.raw_text \notin {None, << >>}
        /\ resumes[rid].raw_text = job[rid].before.resume.raw_text

(***************************************************************************)
(* Properties of interleaved jobs (checked under SpecInterleaved).         *)
(***************************************************************************)
\* status, detail, contact, summary and raw-text columns and derived rows
Outcome(resume, rows) ==
    [status |-> IF resume.exists THEN resume.processing_status ELSE "absent",
     detail |-> IF resume.exists THEN resume.error_message ELSE None,
     fields |-> IF resume.exists THEN FlatPart(resume) ELSE << >>,
     rows |-> rows]

\* what the run of the document's job left is what it leaves run alone
SameAsAlone(rid) ==
    LET alone == RunAlone(rid, job[rid].before.resume, job[rid].before.children,
                          job[rid].file_path, job[rid].inputs, 0)
    IN  Outcome(resumes[rid], children[rid])
            = Outcome(alone.resume, alone.children)

\* C13: whenever the job of a document has ended, the document's status,
\* detail, contact fields and derived rows are those its job leaves when it
\* runs alone, and a step of the job of one document leaves the record, the
\* derived rows and the job of every other document as they were.
C13_InterleavedJobsIndependent ==
    /\ [](\A rid \in Documents : pc[rid] = "done" => SameAsAlone(rid))
    /\ [][\A rid \in Documents :
             (pc[rid] \in InFlight \cup {"queued"} /\ pc'[rid] # pc[rid]) =>
                 \A o \in Documents \ {rid} :
                     /\ resumes'[o] = resumes[o]
                     /\ children'[o] = children[o]
                     /\ job'[o] = job[o]
                     /\ pc'[o] = pc[o]]_vars

\* two jobs that overlapped in time have ended, one Completed with its
\* rows stored and one Failed
C13_Witness ==
    \E rid, o \in Documents :
        /\ rid # o
        /\ pc[rid] = "done" /\ pc[o] = "done"
        /\ job[o].overlapped
        /\ resumes[rid].exists /\ resumes[o].exists
        /\ resumes[rid].processing_status = "Completed"
        /\ children[rid]["skills"] # << >>
        /\ resumes[o].processing_status = "Failed"
        /\ SameAsAlone(rid) /\ SameAsAlone(o)

(***************************************************************************)
(* Properties of retrieval and decoding (checked under SpecFn).            *)
(***************************************************************************)
\* C6: download_resume_file fails classified Oversize on a payload above
\* MAX_FILE_SIZE_BYTES and returns the payload unchanged otherwise.
C6_OversizeGuard ==
    (call.op = "download_resume_file" /\ call.response.kind = "bytes") =>
        IF call.response.file.size > MAX_FILE_SIZE_BYTES
        THEN ~ret.ok /\ Classification(ret.msg) = "Oversize"
        ELSE ret.ok /\ ret.value = call.response.file

\* the storage collaborator reports the file as missing
ReportsNotFound(response) ==
    \/ response.kind = "none"
    \/ /\ response.kind = "raise"
       /\ response.msg \in {MSG_OBJECT_NOT_FOUND, MSG_STATUS_404}

\* C7: a missing file is classified FileNotFound and every other storage
\* failure DownloadFailed, whatever the file path.
C7_NotFoundVersusDownloadFailed ==
    (call.op = "download_resume_file" /\ call.response.kind # "bytes") =>
        /\ ~ret.ok
        /\ Classification(ret.msg) =
              IF ReportsNotFound(call.response)
              THEN "FileNotFound" ELSE "DownloadFailed"

\* the stripped text pdfminer extracted from the file of the last call
ExtractedStripped ==
    IF call.file_content.pdf.text = None THEN << >>
    ELSE Strip(call.file_content.pdf.text)

\* C8: parse_pdf_resume raises ScannedPdfNoText when the stripped text has
\* fewer than 50 characters and returns the stripped text when it has 50 or
\* more; parse_docx_resume returns whatever text the document has.
C8_ScannedPdfThreshold ==
    /\ (call.op = "parse_pdf_resume" /\ call.file_content.pdf.kind = "text") =>
          IF Len(ExtractedStripped) < 50
          THEN ~ret.ok /\ ret.msg = ParseError("ScannedPdfNoText")
          ELSE ret.ok /\ ret.value = ExtractedStripped
    /\ (call.op = "parse_docx_resume"
        /\ call.file_content.docx.kind = "document") =>
          ret.ok /\ Len(ret.value) < 50

\* a padded text of exactly 50 characters once stripped is returned stripped
C8_Witness ==
    /\ call.op = "parse_pdf_resume"
    /\ call.file_content.pdf.kind = "text"
    /\ call.file_content.pdf.text # None
    /\ Len(call.file_content.pdf.text) > 50
    /\ Len(ExtractedStripped) = 50
    /\ ret.ok

\* the path ends, case-insensitively, with the extension
EndsWithExtension(file_path, ext) ==
    /\ Len(file_path) >= Len(ext)
    /\ SubSeq(Lower(file_path), Len(file_path) - Len(ext) + 1, Len(file_path))
          = ext

\* C9: parse_resume_content raises UnsupportedFileType for a path whose
\* extension is neither .pdf nor .docx, whatever the bytes, and invokes no
\* decoder.
C9_UnsupportedExtensionRejected ==
    (/\ call.op = "parse_resume_content"
     /\ ~EndsWithExtension(call.file_path, EXT_PDF)
     /\ ~EndsWithExtension(call.file_path, EXT_DOCX)) =>
        /\ ~ret.result.ok
        /\ ret.result.msg = ParseError("UnsupportedFileType")
        /\ ret.decoder = "none"

\* a decodable PDF under a path whose last extension is .txt is rejected
C9_Witness ==
    /\ call.op = "parse_resume_content"
    /\ call.file_path = PATH_PDF_TXT
    /\ ParsePdfResume(call.file_content).ok
    /\ ~ret.result.ok
    /\ ret.decoder = "none"

\* C11: update_resume_with_parsed_data returns normally for a profile in
\* which any key, or every key, holds None or is missing.
C11_ToleratesNoneAndMissing ==
    call.op = "update_resume_with_parsed_data" => ret.result.ok

(***************************************************************************)
(* Properties of the segmenter and the section parsers (checked under      *)
(* SpecExtract).                                                           *)
(***************************************************************************)
\* the offsets of the span of a section; none when its header is not found
SpanOffsets(span) == IF span.found THEN span.start..(span.end - 1) ELSE {}

\* C17: the six section spans of a text lie within the text and no two of
\* them overlap.
C17_SectionSpansDisjoint ==
    call.op = "_extract_section_content" =>
        /\ \A a \in SectionNames :
              ret[a].found =>
                  /\ 0 <= ret[a].start
                  /\ ret[a].start <= ret[a].end
                  /\ ret[a].end <= Len(call.text)
        /\ \A a, b \in SectionNames :
              a # b => SpanOffsets(ret[a]) \cap SpanOffsets(ret[b]) = {}

\* three sections with content follow one another, each ended by the header
\* of the next
C17_Witness ==
    /\ call.op = "_extract_section_content"
    /\ \A a \in SampleSections : ret[a].found /\ ret[a].content = <<"w">>
    /\ ret["skills"].end <= ret["experience"].start
    /\ ret["experience"].end <= ret["summary"].start
    /\ ret["summary"].end = Len(call.text)

\* the token at index k is the first of its line that is not whitespace
BeginsItsLine(text, k) ==
    \E i \in 0..(k - 1) :
        /\ BolAt(text, i)
        /\ \A q \in (i + 1)..(k - 1) : IsSpace(text[q])

\* the index of the keyword of the header a section starts after
StartKeyword(text, span, section_name) ==
    LET at == {k \in 1..span.start : text[k] = section_name}
    IN  CHOOSE k \in at : \A j \in at : j <= k

\* the index of the keyword of the header a section ends at
EndKeyword(text, span) == SkipSpaces(text, span.end) + 1

StartsAtLineBoundary ==
    \A a \in SectionNames :
        ret[a].found =>
            BeginsItsLine(call.text, StartKeyword(call.text, ret[a], a))

EndsAtLineBoundary ==
    \A a \in SectionNames :
        (ret[a].found /\ ret[a].end < Len(call.text)) =>
            /\ call.text[EndKeyword(call.text, ret[a])] \in SectionNames \ {a}
            /\ BeginsItsLine(call.text, EndKeyword(call.text, ret[a]))

\* C22: the keyword of the header that starts a section, and the keyword
\* of the header that ends one, are the first thing on their line of the
\* text apart from whitespace.
C22_HeadersAtLineBoundary ==
    call.op = "_extract_section_content" =>
        /\ StartsAtLineBoundary
        /\ EndsAtLineBoundary

\* C18: the list of skills holds no two entries that are equal when case is
\* ignored, and at most MAX_SKILLS entries.
C18_SkillsUniqueAndCapped ==
    call.op = "_parse_skills_section" =>
        /\ Len(ret) <= MAX_SKILLS
        /\ \A i, j \in 1..Len(ret) : i # j => Lower(ret[i]) # Lower(ret[j])

\* more than MAX_SKILLS names, each given in lower and in upper case: the
\* list holds the first MAX_SKILLS of them, in their first spelling
C18_Witness ==
    /\ call.op = "_parse_skills_section"
    /\ Contains(call.text, SkillName(MAX_SKILLS + 1))
    /\ Contains(call.text, UpperSkillName(1))
    /\ ret = [i \in 1..MAX_SKILLS |-> SkillName(i)]

\* the lines of a section that hold a date range
DateLines(text) == SelectSeq(NonEmptyLines(text), HasDateRange)

\* the section holds the two date ranges, each on a line of its own
HoldsTheTwoRanges(text) == DateLines(text) = <<LINE_JAN_PRESENT, LINE_JUN_DEC>>

\* the lines before the first line with a date range, as one entry's text
RECURSIVE LeadingLines(_)
LeadingLines(lines) ==
    IF lines = << >> \/ HasDateRange(Head(lines)) THEN << >>
    ELSE <<Head(lines)>> \o LeadingLines(Tail(lines))
LeadingText(text) == Join(LeadingLines(NonEmptyLines(text)), <<"\n">>)

CurrentHasNoEndDate(entries) ==
    \A i \in 1..Len(entries) :
        entries[i].is_current => entries[i].end_date = None

\* C19 as stated: every entry with is_current has no end date, and a
\* section with the date ranges "Jan 2020 - Present" and "Jun 2018 - Dec
\* 2019" yields exactly two entries, the first current with no end date.
C19_TwoRangesTwoEntries ==
    call.op = "_parse_experience_section" =>
        /\ CurrentHasNoEndDate(ret)
        /\ HoldsTheTwoRanges(call.text) =>
              /\ Len(ret) = 2
              /\ ret[1].is_current
              /\ ret[1].end_date = None

\* C19, amended: every entry with is_current has no end date; a section
\* with the two date ranges yields exactly two entries, the first current
\* with no end date, when fewer than MIN_ENTRY_LENGTH characters precede
\* the first date line, and otherwise a third, undated entry comes first and
\* the second entry is the current one.
C19_CurrentHasNoEndDate ==
    call.op = "_parse_experience_section" =>
        /\ CurrentHasNoEndDate(ret)
        /\ HoldsTheTwoRanges(call.text) =>
              IF Len(LeadingText(call.text)) < MIN_ENTRY_LENGTH
              THEN /\ Len(ret) = 2
                   /\ ret[1].is_current
                   /\ ret[1].end_date = None
              ELSE /\ Len(ret) = 3
                   /\ ret[1].raw_text = LeadingText(call.text)
                   /\ ~ret[1].is_current
                   /\ ret[2].is_current
                   /\ ret[2].end_date = None

\* the two date lines alone: two entries, the first open since January
\* 2020, the second from June 2018 to December 2019
C19_Witness ==
    /\ call.op = "_parse_experience_section"
    /\ call.text = LINE_JAN_PRESENT \o <<"\n">> \o LINE_JUN_DEC
    /\ Len(ret) = 2
    /\ ret[1].is_current
    /\ ret[1].start_date = Date(2020, 1, 1)
    /\ ret[1].end_date = None
    /\ ~ret[2].is_current
    /\ ret[2].end_date = Date(2019, 12, 1)

\* the indices of the non-empty lines at which a group begins: the first
\* line and every line that holds a date range
GroupStarts(lines) ==
    SelectSeq([i \in 1..Len(lines) |-> i],
              LAMBDA i : i = 1 \/ HasDateRange(lines[i]))

\* the text of every group: the lines from one start up to the next
GroupTexts(text) ==
    LET lines == NonEmptyLines(text)
        starts == GroupStarts(lines)
        last(k) == IF k = Len(starts) THEN Len(lines) ELSE starts[k + 1] - 1
    IN  [k \in 1..Len(starts) |->
            Join(SubSeq(lines, starts[k], last(k)), <<"\n">>)]

RawTexts(entries) == [i \in 1..Len(entries) |-> entries[i].raw_text]

\* no entry holds more than one line with a date range
AtMostOneDateLine(entries) ==
    \A i \in 1..Len(entries) :
        Len(SelectSeq(SplitChar(entries[i].raw_text, "\n"), HasDateRange)) <= 1

\* every entry is a stretch of the section of more than
\* MIN_PARAGRAPH_LENGTH characters without a blank line in it
AreLongParagraphs(text, entries) ==
    \A i \in 1..Len(entries) :
        /\ Len(entries[i].raw_text) > MIN_PARAGRAPH_LENGTH
        /\ Contains(text, entries[i].raw_text)
        /\ Len(SplitBlankLines(entries[i].raw_text)) = 1

C24_FallbackOnlyWithoutDates ==
    call.op = "_parse_experience_section" =>
        IF DateLines(call.text) # << >>
        THEN RawTexts(ret) =
                 Take(SelectSeq(GroupTexts(call.text),
                                LAMBDA g : Len(g) >= MIN_ENTRY_LENGTH),
                      MAX_EXPERIENCES)
        ELSE AreLongParagraphs(call.text, ret)

\* the dates of an entry whose text is a range that starts in month m of
\* 2019, written as `month`
MonthRangeParsed(entry, m, month) ==
    StartsWith(entry.raw_text, RangeStart(month)) =>
        /\ \A n \in 1..12 :
              entry.raw_text \in {RangeStart(month) \o ClosedEnd(MONTH_NAMES[n]),
                                 RangeStart(month)
                                     \o ClosedEnd(MONTH_ABBREVIATIONS[n])} =>
                  /\ entry.start_date = Date(2019, m, 1)
                  /\ entry.end_date = Date(2020, n, 1)
        /\ entry.raw_text \in {RangeStart(month) \o Capitalised(PRESENT),
                               RangeStart(month) \o Capitalised(CURRENT)} =>
              /\ entry.start_date = Date(2019, m, 1)
              /\ entry.end_date = None

\* C25: an entry whose range is written "Month YYYY - Month YYYY", with
\* any month name in full or abbreviated on either side, starts on the
\* first day of the first month and ends on the first day of the second;
\* with Present or Current on the right it starts on that first day and
\* has no end date.
C25_MonthRangesParsed ==
    call.op = "_parse_experience_section" =>
        \A i \in 1..Len(ret), m \in 1..12 :
            /\ MonthRangeParsed(ret[i], m, MONTH_NAMES[m])
            /\ MonthRangeParsed(ret[i], m, MONTH_ABBREVIATIONS[m])

\* the numbers of exactly four digits that stand in a text as words
FourDigitYears(text) ==
    {IntOf(SubSeq(text, p, p + 3)) :
        p \in {q \in 1..(Len(text) - 3) :
                  /\ \A k \in q..(q + 3) : text[k] \in DIGIT_CHARS
                  /\ q = 1 \/ text[q - 1] \notin WORD_CHARS
                  /\ q + 3 = Len(text) \/ text[q + 4] \notin WORD_CHARS}}

\* C26 as stated: an education entry whose text holds two or more distinct
\* four-digit years starts on January 1 of the earliest and ends on January
\* 1 of the latest; one whose text holds exactly one has that year's
\* January 1 as its end date and no start date.
C26_YearsBecomeDates ==
    call.op = "_parse_education_section" =>
        \A i \in 1..Len(ret) :
            LET years == FourDigitYears(ret[i].raw_text)
            IN  /\ Cardinality(years) >= 2 =>
                      /\ ret[i].start_date = Date(Least(years), 1, 1)
                      /\ ret[i].end_date = Date(Greatest(years), 1, 1)
                /\ Cardinality(years) = 1 =>
                      /\ ret[i].start_date = None
                      /\ ret[i].end_date = Date(Greatest(years), 1, 1)

\* C26, amended: the years are those from 1900 to 2099; with two or more
\* of them the entry starts on January 1 of the earliest and ends on
\* January 1 of the latest unless it is ongoing, when it has no end date;
\* with exactly one, that year's January 1 is the end date, ongoing or
\* not, and there is no start date; with none there are no dates.
C26_YearsBecomeDatesUnlessOngoing ==
    call.op = "_parse_education_section" =>
        \A i \in 1..Len(ret) :
            LET years == FourDigitYears(ret[i].raw_text) \cap 1900..2099
            IN  /\ Cardinality(years) >= 2 =>
                      /\ ret[i].start_date = Date(Least(years), 1, 1)
                      /\ ret[i].end_date =
                             IF ret[i].is_current THEN None
                             ELSE Date(Greatest(years), 1, 1)
                /\ Cardinality(years) = 1 =>
                      /\ ret[i].start_date = None
                      /\ ret[i].end_date = Date(Greatest(years), 1, 1)
                /\ years = {} =>
                      /\ ret[i].start_date = None
                      /\ ret[i].end_date = None

\* a degree expected in 2022 with the years 2018 and 2021, then a degree
\* from 2015 to 2019: the first entry has no end date, the second has both
C26_Witness ==
    /\ call.op = "_parse_education_section"
    /\ call.text = LINE_MSC_EXPECTED \o <<"\n">> \o LINE_MBA_RANGE
    /\ Len(ret) = 2
    /\ ret[1].is_current
    /\ ret[1].start_date = Date(2018, 1, 1)
    /\ ret[1].end_date = None
    /\ ~ret[2].is_current
    /\ ret[2].start_date = Date(2015, 1, 1)
    /\ ret[2].end_date = Date(2019, 1, 1)

\* C27: _extract_name returns the first of the first LINES_SCANNED
\* non-empty lines of the text that looks like a name, whatever blank lines
\* come before or between them, and no name when none of them does.
C27_NameAmongNonEmptyLines ==
    call.op = "_extract_name" =>
        ret = FirstNameIn(Take(NonEmptyLines(call.text), LINES_SCANNED))

(***************************************************************************)
(* Properties of the middleware (checked under SpecAuth).                  *)
(***************************************************************************)
\* C20: a request to a protected path that bears a token whose expiry time
\* has passed is answered 401 with code INVALID_TOKEN, whatever was
\* answered to the same token before.
C20_ExpiredTokenRejected ==
    (/\ call.op = "dispatch"
     /\ call.path \notin PUBLIC_PATHS
     /\ call.header.kind = "bearer"
     /\ TOKENS[call.header.token].payload.exp < call.at) =>
        /\ ret.status = 401
        /\ ret.code = "INVALID_TOKEN"

\* a validly signed, unexpired token that carries 'sub' and no 'scopes'
LacksOnlyScopes(token) ==
    /\ TOKENS[token].signature = "valid"
    /\ "sub" \in DOMAIN TOKENS[token].payload
    /\ "scopes" \notin DOMAIN TOKENS[token].payload

\* C21: a request to a protected path that bears an otherwise valid token
\* without a 'scopes' claim is answered 401 with code INVALID_SCOPES_CLAIM.
C21_MissingScopesRejected ==
    (/\ call.op = "dispatch"
     /\ call.path \notin PUBLIC_PATHS
     /\ call.header.kind = "bearer"
     /\ LacksOnlyScopes(call.header.token)
     /\ call.at < TOKENS[call.header.token].payload.exp) =>
        /\ ret.status = 401
        /\ ret.code = "INVALID_SCOPES_CLAIM"

====
